---------------------------- MODULE Spec2Model ----------------------------
(***************************************************************************)
(* A model of the ChatGPT query extension: the content script that matches *)
(* keyboard shortcuts (shortcuts.js), the procedure the service worker     *)
(* injects into the target page, the single-action execution with its      *)
(* retry (background.js), and the configuration cache with the context     *)
(* menu rebuild (background.js).                                           *)
(*                                                                         *)
(* Strings whose content the code inspects (shortcut strings, key codes)   *)
(* are sequences of characters; a character is a one-element string, and   *)
(* the four legacy Mac symbols are written "u2303" (control), "u2325"      *)
(* (option), "u21E7" (shift) and "u2318" (command).                        *)
(***************************************************************************)
EXTENDS Integers, Sequences, FiniteSets, TLC

VARIABLES
  \* ---- content script (shortcuts.js)
  csPc,              \* position of initializeShortcuts
  shortcuts,         \* the in-memory list of parsed shortcuts
  shortcutsReady,    \* diagnostics.shortcutsReady
  listenerAttached,  \* document.addEventListener('keydown', ...) was called
  missedKeypresses,  \* diagnostics.missedKeypresses.length
  totalKeypresses,   \* diagnostics.totalKeypresses
  csSent,            \* EXECUTE_SHORTCUT messages sent, in order
  updatesSeen,       \* SHORTCUTS_UPDATED notifications handled
  bgVersion,         \* version of the configuration the background holds
  respMsg,           \* the GET_SHORTCUTS response in flight: [has, map, version]
  updMsg,            \* the SHORTCUTS_UPDATED notification in flight: [map, version]
  listFrom,          \* the map and version the in-memory list was built from
  newestUpdate,      \* newest version received in a SHORTCUTS_UPDATED
  lastKeydown,       \* what the latest handleKeydown call did
  \* ---- the clock shared by the page and the service worker (ms)
  now,
  \* ---- target page (the function injected by tryInjectWithTiming)
  jseState,          \* window.__JSE_STATE: [lastReqId, lastReqAt]
  editorVisible,     \* pickEditor() finds a visible editor
  inst,              \* the runs of the injected function, by delivery number
  insertions,        \* number of times text was written into the composer
  alerts,            \* number of manual-paste alerts shown
  submitActs,        \* submit actions performed (click, Enter, requestSubmit)
  deliveries,        \* SpecPage: history of deliveries [id, at, skipped]
  \* ---- single-action execution (executeAction)
  exPc,              \* position of executeAction
  exAutoSubmit,      \* menu.autoSubmit of the request
  exReqId,           \* reqId of the try block
  nextReqId,         \* source of fresh request ids (Date.now()-random)
  attempts,          \* tryInjectWithTiming invocations: [label, reqId, tab, at, res, ok, state]
  retryDue,          \* when the retry / fallback timer is due
  ok1At,             \* when attempt #1 returned
  tabs,              \* number of tabs created; tab ids are 1..tabs
  exEntry,           \* the entry point that called executeAction
  createdTab,        \* created.id of openOrFocusGptTab, 0 when tabs.create threw
  openOutcome,       \* how openOrFocusGptTab settled
  \* ---- configuration cache and context menus
  storageCfg,        \* version of the configuration in chrome.storage.sync
  cachedConfig,      \* version held by the cache, 0 for null
  isRebuildingMenus, \* the in-progress flag
  menuTree,          \* version the native menu tree was built from, 0: cleared
  proc,              \* the asynchronous operations of the service worker
  lastInvalidated,   \* newest version whose change handler invalidated the cache
  rebuildRuns,       \* rebuilds that passed the flag (removeAll issued)
  \* ---- Run All (runAllActions)
  raPc,              \* position of runAllActions
  raActions,         \* menu.actions: [enabled, order] per action
  createCalls,       \* chrome.tabs.create calls issued: [action, active], in order
  pipe,              \* stage of each action's pipeline
  \* ---- tab readiness (waitForTitleMatch)
  wPc,               \* state of the promise: idle, pending, resolved, rejected
  wErr,              \* the error it was rejected with
  wListener,         \* onUpdated is registered with chrome.tabs.onUpdated
  wStart,            \* const start = Date.now()
  wPoll,             \* the poll chain: get (tabs.get awaited), timer, stopped
  wPollDue,          \* when the poll timer is due
  tabOpen,           \* the tab exists
  titleMatches,      \* its title contains the substring
  \* ---- the text path of executeAction: prompt, tab URL, composer
  dPc,               \* idle, opened, rendered, inserted
  dAction,           \* action.prompt
  dSelection,        \* selectionText
  dClear,            \* config.globalSettings.clearContext
  dText,             \* const prompt
  dUrl,              \* the url the tab was created with: [base, fresh]
  dPath,             \* the tab comes from the try block or from the catch block
  composer,          \* the text in the composer of the tab
  editorKind,        \* the element pickEditor() returns: CE or TA
  \* ---- parseShortcut applied to two shortcut strings
  parsePair,         \* [d1, d2, s1, s2, r1, r2], or null before the call
  \* ---- dispatch of clicks and shortcut requests against the configuration
  dispConfig,        \* the configuration in storage
  dispTree,          \* the context-menu entries of the last completed rebuild
  dispMap,           \* the shortcut map the page holds
  dispSaves,         \* number of configuration saves
  lastExec,          \* the latest executeAction call: [menu, action, enabled, via]
  \* ---- the builders applied to one configuration
  built,             \* [config, tree, map], or null before the call
  \* ---- the options page: the conflict check of a save
  saveCheck,         \* [d1, d2, config, conflicts, passed], or null before the save
  \* ---- the injected function: the choice of the editor in one document
  picked,            \* [dom, editor, written], or null before tryOnce
  \* ---- one request under the legacy and under the current configuration shape
  compat,            \* what both code paths build and do, or null before
  \* ---- the options page: menus and their unsaved changes
  opMenus,           \* currentConfig.menus: the ids, in order
  opConfig,          \* currentConfig.menus: the content of each menu
  opStoredMenus,     \* the ids of the menus in storage
  opStored,          \* the content of each menu in storage
  selectedMenuId,    \* the menu shown in the form, or "none"
  opForm,            \* the content of the form
  savedFormStates,   \* menuId -> the state captured for change detection
  dirtyMenus,        \* the set of menuIds marked as having unsaved changes
  revertShown,       \* #revert-changes is not hidden
  revertAllShown,    \* #revert-all-changes is not hidden
  opAdded            \* number of menus added

csVars == <<csPc, shortcuts, shortcutsReady, listenerAttached, missedKeypresses,
            totalKeypresses, csSent, updatesSeen, bgVersion, respMsg, updMsg,
            listFrom, newestUpdate, lastKeydown>>
pageVars == <<jseState, editorVisible, inst, insertions, alerts, submitActs, deliveries>>
execVars == <<exPc, exAutoSubmit, exReqId, nextReqId, attempts, retryDue, ok1At, tabs,
              exEntry, createdTab, openOutcome>>
menuVars == <<storageCfg, cachedConfig, isRebuildingMenus, menuTree, proc,
              lastInvalidated, rebuildRuns>>
runVars == <<raPc, raActions, createCalls, pipe>>
waitVars == <<wPc, wErr, wListener, wStart, wPoll, wPollDue, tabOpen, titleMatches>>
dataVars == <<dPc, dAction, dSelection, dClear, dText, dUrl, dPath, composer, editorKind>>
parseVars == <<parsePair>>
dispVars == <<dispConfig, dispTree, dispMap, dispSaves, lastExec>>
builtVars == <<built>>
conflictVars == <<saveCheck>>
pickVars == <<picked>>
compatVars == <<compat>>
optVars == <<opMenus, opConfig, opStoredMenus, opStored, selectedMenuId, opForm,
             savedFormStates, dirtyMenus, revertShown, revertAllShown, opAdded>>
restVars == <<conflictVars, pickVars, compatVars, optVars>>
vars == <<csVars, now, pageVars, execVars, menuVars, runVars, waitVars, dataVars, parseVars,
          dispVars, builtVars, restVars>>

-----------------------------------------------------------------------------
(* Bounds of the model *)

MaxKeypresses == 2
MaxUpdates == 1

-----------------------------------------------------------------------------
(* Character strings *)

Ctrl == <<"C", "t", "r", "l">>
Alt == <<"A", "l", "t">>
Shift == <<"S", "h", "i", "f", "t">>
Meta == <<"M", "e", "t", "a">>

RECURSIVE Flatten(_)
Flatten(ss) == IF ss = <<>> THEN <<>> ELSE Head(ss) \o Flatten(Tail(ss))

\* A faulty variant: the command symbol is not replaced.
ReplaceSymbolsButMeta(s) ==
  Flatten([i \in 1..Len(s) |->
            CASE s[i] = "u2303" -> Ctrl
              [] s[i] = "u2325" -> Alt
              [] s[i] = "u21E7" -> Shift
              [] OTHER -> <<s[i]>>])

\* String.prototype.replace(/sym/g, name) for the four symbols, in one pass:
\* the replacements do not overlap.
ReplaceSymbols(s) ==
  Flatten([i \in 1..Len(s) |->
            CASE s[i] = "u2303" -> Ctrl
              [] s[i] = "u2325" -> Alt
              [] s[i] = "u21E7" -> Shift
              [] s[i] = "u2318" -> Meta
              [] OTHER -> <<s[i]>>])

\* String.prototype.split('+')
RECURSIVE SplitPlus(_, _, _)
SplitPlus(s, i, cur) ==
  IF i > Len(s) THEN <<cur>>
  ELSE IF s[i] = "+" THEN <<cur>> \o SplitPlus(s, i + 1, <<>>)
  ELSE SplitPlus(s, i + 1, Append(cur, s[i]))

\* String.prototype.trim()
RECURSIVE TrimLeft(_)
TrimLeft(s) == IF s # <<>> /\ Head(s) = " " THEN TrimLeft(Tail(s)) ELSE s
RECURSIVE TrimRight(_)
TrimRight(s) ==
  IF s # <<>> /\ s[Len(s)] = " " THEN TrimRight(SubSeq(s, 1, Len(s) - 1)) ELSE s
Trim(s) == TrimRight(TrimLeft(s))

StartsWith(s, p) == Len(s) >= Len(p) /\ SubSeq(s, 1, Len(p)) = p

\* String.prototype.toUpperCase() on one character
ToUpperCase(c) ==
  CASE c = "s" -> "S"
    [] c = "t" -> "T"
    [] c = "h" -> "H"
    [] OTHER -> c

-----------------------------------------------------------------------------
(* shortcuts.js: parsing and matching *)

normalizeKeyString(value) ==
  IF value = <<>> THEN <<>>
  ELSE LET t == Trim(value)
           key == IF StartsWith(t, <<"K", "e", "y">>) THEN SubSeq(t, 4, Len(t))
                  ELSE IF StartsWith(t, <<"D", "i", "g", "i", "t">>) THEN SubSeq(t, 6, Len(t))
                  ELSE IF StartsWith(t, <<"A", "r", "r", "o", "w">>) THEN SubSeq(t, 6, Len(t))
                  ELSE t
       IN IF Len(key) = 1 THEN <<ToUpperCase(key[1])>> ELSE key

validModifiers == {Ctrl, Alt, Shift, Meta}

Null == [null |-> TRUE]

\* the key left by parts.forEach: the last part that is not a modifier
RECURSIVE LastKey(_, _)
LastKey(parts, key) ==
  IF parts = <<>> THEN key
  ELSE LET trimmed == Trim(Head(parts))
       IN LastKey(Tail(parts),
                  IF trimmed \in validModifiers THEN key ELSE normalizeKeyString(trimmed))

\* A faulty variant: a string without modifiers is accepted.
parseShortcutAnyModifiers(shortcutString) ==
  IF shortcutString = <<>> THEN Null
  ELSE LET parts == SplitPlus(ReplaceSymbols(shortcutString), 1, <<>>)
           modifiers == {Trim(parts[i]) : i \in 1..Len(parts)} \cap validModifiers
           key == LastKey(parts, <<>>)
       IN IF key = <<>> THEN Null
          ELSE [modifiers |-> modifiers, key |-> key]

parseShortcut(shortcutString) ==
  IF shortcutString = <<>> THEN Null
  ELSE LET parts == SplitPlus(ReplaceSymbols(shortcutString), 1, <<>>)
           modifiers == {Trim(parts[i]) : i \in 1..Len(parts)} \cap validModifiers
           key == LastKey(parts, <<>>)   \* <<>> stands for null and for ''
       IN IF modifiers = {} \/ key = <<>> THEN Null
          ELSE [modifiers |-> modifiers, key |-> key]

extractKeyPress(event) ==
  [modifiers |-> (IF event.ctrlKey THEN {Ctrl} ELSE {}) \cup
                 (IF event.altKey THEN {Alt} ELSE {}) \cup
                 (IF event.shiftKey THEN {Shift} ELSE {}) \cup
                 (IF event.metaKey THEN {Meta} ELSE {}),
   key |-> normalizeKeyString(event.code)]

\* A faulty variant: extra pressed modifiers are tolerated.
modifierSetsInclude(set1, set2) ==
  \A mod \in set1 : mod \in set2

modifierSetsMatch(set1, set2) ==
  Cardinality(set1) = Cardinality(set2) /\ \A mod \in set1 : mod \in set2

\* the shortcuts built from a shortcut map: invalid strings are dropped
RECURSIVE ParseMap(_)
ParseMap(map) ==
  IF map = <<>> THEN <<>>
  ELSE LET parsed == parseShortcut(Head(map)[1])
       IN (IF parsed = Null THEN <<>>
           ELSE <<[modifiers |-> parsed.modifiers, key |-> parsed.key,
                   actionId |-> Head(map)[2]]>>) \o ParseMap(Tail(map))

\* shortcuts.find(...): the index of the first match, 0 if none
FindMatch(list, pressed) ==
  LET hits == {i \in 1..Len(list) :
                 list[i].key = pressed.key /\
                 modifierSetsMatch(list[i].modifiers, pressed.modifiers)}
  IN IF hits = {} THEN 0 ELSE CHOOSE i \in hits : \A j \in hits : i <= j

-----------------------------------------------------------------------------
(* Inputs of the content script *)

CtrlShiftS == Ctrl \o <<"+">> \o Shift \o <<"+", "S">>
ShiftCtrlS == Shift \o <<"+">> \o Ctrl \o <<"+", "S">>
SymCtrlShiftS == <<"u2303", "+", "u21E7", "+", "s">>
AltT == Alt \o <<"+", "T">>
PlainS == <<"S">>
CtrlShiftOnly == Ctrl \o <<"+">> \o Shift

\* shortcut maps the background can send: [[shortcutString, actionRef], ...]
ShortcutMaps ==
  { <<>>,
    << <<CtrlShiftS, "a1">> >>,
    << <<ShiftCtrlS, "a1">>, <<AltT, "a2">> >>,
    << <<PlainS, "a1">>, <<SymCtrlShiftS, "a2">>, <<CtrlShiftOnly, "a3">> >> }

KeyEvents ==
  [ctrlKey : BOOLEAN, altKey : BOOLEAN, shiftKey : {TRUE}, metaKey : {FALSE},
   code : {<<"K", "e", "y", "S">>}, target : {"BODY", "INPUT"}]
  \cup
  [ctrlKey : {FALSE}, altKey : {TRUE}, shiftKey : {FALSE}, metaKey : {FALSE},
   code : {<<"K", "e", "y", "T">>}, target : {"BODY", "TEXTAREA", "CE"}]
  \cup
  [ctrlKey : {FALSE}, altKey : {FALSE}, shiftKey : {FALSE}, metaKey : {FALSE},
   code : {<<"K", "e", "y", "S">>}, target : {"BODY"}]

\* String(window.getSelection()) of the page
PageSelections == {<<>>, <<" ", " ">>, <<" ", "A", "c", "m", "e", " ">>}

-----------------------------------------------------------------------------
(* shortcuts.js: the content script, and the two messages of background.js  *)
(* that carry a shortcut map to it                                         *)

InitCS ==
  /\ csPc = "start"
  /\ shortcuts = <<>>
  /\ shortcutsReady = FALSE
  /\ listenerAttached = FALSE
  /\ missedKeypresses = 0
  /\ totalKeypresses = 0
  /\ csSent = <<>>
  /\ updatesSeen = 0
  /\ bgVersion = 1
  /\ respMsg = Null
  /\ updMsg = Null
  /\ listFrom = [map |-> <<>>, version |-> 0]
  /\ newestUpdate = 0
  /\ lastKeydown = Null

\* A faulty variant of the initialization: the listener is registered when the
\* request is sent, before the response.
InitializeEager(sendThrows) ==
  /\ csPc = "start"
  /\ listenerAttached' = TRUE
  /\ csPc' = IF sendThrows THEN "fallback" ELSE "awaiting"
  /\ UNCHANGED <<shortcuts, shortcutsReady, missedKeypresses, totalKeypresses,
                 csSent, updatesSeen, bgVersion, respMsg, updMsg, listFrom,
                 newestUpdate, lastKeydown>>
  /\ UNCHANGED <<now, pageVars, execVars, menuVars, runVars, waitVars, dataVars, parseVars, dispVars, builtVars, restVars>>

\* initializeShortcuts up to its await: loadShortcuts() sends GET_SHORTCUTS.
\* When chrome.runtime.sendMessage throws (extension context invalidated) the
\* promise rejects and the catch block registers the listener anyway.
InitializeShortcuts(sendThrows) ==
  /\ csPc = "start"
  /\ IF sendThrows
       THEN /\ csPc' = "fallback"
            /\ listenerAttached' = TRUE
       ELSE /\ csPc' = "awaiting"
            /\ UNCHANGED listenerAttached
  /\ UNCHANGED <<shortcuts, shortcutsReady, missedKeypresses, totalKeypresses,
                 csSent, updatesSeen, bgVersion, respMsg, updMsg, listFrom,
                 newestUpdate, lastKeydown>>
  /\ UNCHANGED <<now, pageVars, execVars, menuVars, runVars, waitVars, dataVars, parseVars, dispVars, builtVars, restVars>>

\* background.js, GET_SHORTCUTS: loadConfig().then(...) builds the map of the
\* configuration and calls sendResponse; the response is then in flight.
\* hasShortcuts is response && response.shortcuts (false: the callback runs
\* with no response).
GetShortcutsBuilt(hasShortcuts, map) ==
  /\ csPc = "awaiting"
  /\ respMsg = Null
  /\ respMsg' = [has |-> hasShortcuts, map |-> IF hasShortcuts THEN map ELSE <<>>,
                 version |-> bgVersion]
  /\ UNCHANGED <<csPc, shortcuts, shortcutsReady, listenerAttached, missedKeypresses,
                 totalKeypresses, csSent, updatesSeen, bgVersion, updMsg, listFrom,
                 newestUpdate, lastKeydown>>
  /\ UNCHANGED <<now, pageVars, execVars, menuVars, runVars, waitVars, dataVars, parseVars, dispVars, builtVars, restVars>>

\* background.js, storage.onChanged: the configuration was saved, and the
\* handler sends SHORTCUTS_UPDATED with the map of the new configuration to
\* the tab; the notification is then in flight.
ConfigChanged(map) ==
  /\ csPc \in {"awaiting", "done"}
  /\ bgVersion <= MaxUpdates
  /\ updMsg = Null
  /\ bgVersion' = bgVersion + 1
  /\ updMsg' = [map |-> map, version |-> bgVersion + 1]
  /\ UNCHANGED <<csPc, shortcuts, shortcutsReady, listenerAttached, missedKeypresses,
                 totalKeypresses, csSent, updatesSeen, respMsg, listFrom,
                 newestUpdate, lastKeydown>>
  /\ UNCHANGED <<now, pageVars, execVars, menuVars, runVars, waitVars, dataVars, parseVars, dispVars, builtVars, restVars>>

\* The GET_SHORTCUTS callback, then the continuation of initializeShortcuts
\* (a microtask of the same task).
ShortcutsResponse ==
  /\ csPc = "awaiting"
  /\ respMsg # Null
  /\ shortcuts' = IF respMsg.has THEN ParseMap(respMsg.map) ELSE <<>>
  /\ listFrom' = [map |-> respMsg.map, version |-> respMsg.version]
  /\ respMsg' = Null
  /\ shortcutsReady' = TRUE
  /\ listenerAttached' = TRUE
  /\ csPc' = "done"
  /\ UNCHANGED <<missedKeypresses, totalKeypresses, csSent, updatesSeen, bgVersion,
                 updMsg, newestUpdate, lastKeydown>>
  /\ UNCHANGED <<now, pageVars, execVars, menuVars, runVars, waitVars, dataVars, parseVars, dispVars, builtVars, restVars>>

\* chrome.runtime.onMessage listener: SHORTCUTS_UPDATED. The list is emptied
\* and refilled in one task.
ShortcutsUpdated ==
  /\ updMsg # Null
  /\ updatesSeen < MaxUpdates
  /\ shortcuts' = ParseMap(updMsg.map)
  /\ listFrom' = [map |-> updMsg.map, version |-> updMsg.version]
  /\ newestUpdate' = updMsg.version
  /\ updMsg' = Null
  /\ updatesSeen' = updatesSeen + 1
  /\ UNCHANGED <<csPc, shortcutsReady, listenerAttached, missedKeypresses,
                 totalKeypresses, csSent, bgVersion, respMsg, lastKeydown>>
  /\ UNCHANGED <<now, pageVars, execVars, menuVars, runVars, waitVars, dataVars, parseVars, dispVars, builtVars, restVars>>

\* A faulty variant: content-editable targets are not left alone.
IsEditableButCE(target) == target \in {"INPUT", "TEXTAREA"}

\* "target.tagName === 'INPUT' || target.tagName === 'TEXTAREA' ||
\*  target.isContentEditable"
IsEditable(target) == target \in {"INPUT", "TEXTAREA", "CE"}

\* "if (!diagnostics.shortcutsReady || shortcuts.length === 0)"
PotentialMiss(ready, list) == ~ready \/ Len(list) = 0

\* A faulty variant: the message is sent whatever the selection is.
SendsUnselected(m, runtimeValid, selection) == m # 0 /\ runtimeValid

\* the guards before chrome.runtime.sendMessage: a match, a valid extension
\* context, a non-empty trimmed selection
Sends(m, runtimeValid, selection) == m # 0 /\ runtimeValid /\ selection # <<>>

\* ".catch(error => ...)" is attached to the promise of sendMessage
HasCatch == TRUE

\* what handleKeydown logs about the background
Logged(m, runtimeValid, selection, sendRejects) ==
  IF m # 0 /\ ~runtimeValid THEN "reloaded"
  ELSE IF Sends(m, runtimeValid, selection) /\ sendRejects /\ HasCatch THEN "sendFailed"
  ELSE "none"

\* handleKeydown. runtimeValid is chrome.runtime?.id, rawSelection the page
\* selection, sendRejects the fate of the promise of sendMessage.
HandleKeydown(event, runtimeValid, rawSelection, sendRejects) ==
  /\ listenerAttached
  /\ totalKeypresses < MaxKeypresses
  /\ IF IsEditable(event.target)
       THEN /\ UNCHANGED <<totalKeypresses, missedKeypresses, csSent>>
            /\ lastKeydown' = [event |-> event, runtimeValid |-> runtimeValid,
                               selection |-> <<>>, list |-> shortcuts,
                               listVersion |-> listFrom.version,
                               newest |-> newestUpdate, searched |-> FALSE,
                               matched |-> 0, prevented |-> FALSE, sent |-> 0,
                               missed |-> FALSE, logged |-> "none",
                               outcome |-> "returned"]
       ELSE LET pressed == extractKeyPress(event)
                m == FindMatch(shortcuts, pressed)
                selection == Trim(rawSelection)
                sends == Sends(m, runtimeValid, selection)
            IN /\ totalKeypresses' = totalKeypresses + 1
               /\ missedKeypresses' =
                    IF PotentialMiss(shortcutsReady, shortcuts)
                      THEN missedKeypresses + 1 ELSE missedKeypresses
               /\ csSent' =
                    IF sends
                      THEN Append(csSent, [type |-> "EXECUTE_SHORTCUT",
                                           actionId |-> shortcuts[m].actionId,
                                           selectionText |-> selection])
                      ELSE csSent
               /\ lastKeydown' = [event |-> event, runtimeValid |-> runtimeValid,
                                  selection |-> IF m # 0 /\ runtimeValid
                                                  THEN selection ELSE <<>>,
                                  list |-> shortcuts,
                                  listVersion |-> listFrom.version,
                                  newest |-> newestUpdate, searched |-> TRUE,
                                  matched |-> m, prevented |-> m # 0,
                                  sent |-> IF sends THEN 1 ELSE 0,
                                  missed |-> PotentialMiss(shortcutsReady, shortcuts),
                                  logged |-> Logged(m, runtimeValid, selection, sendRejects),
                                  outcome |-> IF sends /\ sendRejects /\ ~HasCatch
                                                THEN "unhandledRejection"
                                                ELSE "returned"]
  /\ UNCHANGED <<csPc, shortcuts, shortcutsReady, listenerAttached, updatesSeen,
                 bgVersion, respMsg, updMsg, listFrom, newestUpdate>>
  /\ UNCHANGED <<now, pageVars, execVars, menuVars, runVars, waitVars, dataVars, parseVars, dispVars, builtVars, restVars>>

NextCS ==
  \/ \E sendThrows \in BOOLEAN : InitializeShortcuts(sendThrows)
  \/ \E hasShortcuts \in BOOLEAN, map \in ShortcutMaps : GetShortcutsBuilt(hasShortcuts, map)
  \/ \E map \in ShortcutMaps : ConfigChanged(map)
  \/ ShortcutsResponse
  \/ ShortcutsUpdated
  \/ \E event \in KeyEvents, runtimeValid, sendRejects \in BOOLEAN,
        rawSelection \in PageSelections :
       HandleKeydown(event, runtimeValid, rawSelection, sendRejects)

-----------------------------------------------------------------------------
(* background.js: configuration cache and context-menu rebuild            *)
(*                                                                         *)
(* A configuration is named by its version: storage starts at version 1,   *)
(* and every save writes the next version. 0 stands for null (the cache)   *)
(* and for the cleared tree (the menus).                                   *)

MaxChanges == 2
NumLoaders == 1

InstallProc == 0
Handlers == 1..MaxChanges            \* handler h serves the change to version h + 1
Loaders == (MaxChanges + 1)..(MaxChanges + NumLoaders)
ClickProc == MaxChanges + NumLoaders + 1   \* one context-menu click
Procs == {InstallProc} \cup Handlers \cup Loaders \cup {ClickProc}

Max(a, b) == IF a >= b THEN a ELSE b

IdleProc == [pc |-> "idle", get |-> "none", snap |-> 0, floor |-> 0, ret |-> 0,
             outcome |-> "none", sent |-> 0]

InitMenu ==
  /\ storageCfg = 1
  /\ cachedConfig = 0
  /\ isRebuildingMenus = FALSE
  /\ menuTree = 0
  /\ proc = [p \in Procs |-> IdleProc]
  /\ lastInvalidated = 0
  /\ rebuildRuns = 0

\* A faulty variant of the guard: the flag is not consulted.
RebuildSkipsNever == FALSE

\* rebuildContextMenus: "if (isRebuildingMenus) return"
RebuildSkips == isRebuildingMenus

\* The options page saves a configuration: storage holds the next version and
\* chrome.storage.onChanged is queued for the service worker.
StorageSet ==
  /\ storageCfg <= MaxChanges
  /\ proc[storageCfg].pc = "idle"
  /\ storageCfg' = storageCfg + 1
  /\ proc' = [proc EXCEPT ![storageCfg].pc = "queued"]
  /\ UNCHANGED <<cachedConfig, isRebuildingMenus, menuTree, lastInvalidated, rebuildRuns>>
  /\ UNCHANGED <<now, pageVars, execVars, csVars, runVars, waitVars, dataVars, parseVars, dispVars, builtVars, restVars>>

\* The entry of rebuildContextMenus, called by process p whose cache value at
\* that moment is cache: dropped when a rebuild is in progress, otherwise the
\* flag is set and contextMenus.removeAll() is awaited.
RebuildEntry(p, base) ==
  IF RebuildSkips
    THEN /\ proc' = [base EXCEPT ![p].pc = IF p = InstallProc THEN "done" ELSE "tabsQuery",
                                 ![p].outcome = "dropped"]
         /\ UNCHANGED <<isRebuildingMenus, rebuildRuns>>
    ELSE /\ proc' = [base EXCEPT ![p].pc = "removeAll", ![p].outcome = "ran"]
         /\ isRebuildingMenus' = TRUE
         /\ rebuildRuns' = rebuildRuns + 1

\* chrome.runtime.onInstalled: migrateConfig has finished, rebuildContextMenus starts
InstallStart ==
  /\ proc[InstallProc].pc = "idle"
  /\ RebuildEntry(InstallProc, proc)
  /\ UNCHANGED <<storageCfg, cachedConfig, menuTree, lastInvalidated>>
  /\ UNCHANGED <<now, pageVars, execVars, csVars, runVars, waitVars, dataVars, parseVars, dispVars, builtVars, restVars>>

\* chrome.storage.onChanged listener up to its first suspension:
\* invalidateCache(), then rebuildContextMenus() up to its first await
HandlerStart(p) ==
  /\ p \in Handlers
  /\ proc[p].pc = "queued"
  /\ \A q \in Handlers : q < p => proc[q].pc # "queued"   \* events are dispatched in order
  /\ cachedConfig' = 0
  /\ lastInvalidated' = Max(lastInvalidated, p + 1)
  /\ RebuildEntry(p, proc)
  /\ UNCHANGED <<storageCfg, menuTree>>
  /\ UNCHANGED <<now, pageVars, execVars, csVars, runVars, waitVars, dataVars, parseVars, dispVars, builtVars, restVars>>

\* chrome.contextMenus.removeAll() resolves; the 50 ms settling delay starts
RemoveAllDone(p) ==
  /\ proc[p].pc = "removeAll"
  /\ menuTree' = 0
  /\ proc' = [proc EXCEPT ![p].pc = "delay"]
  /\ UNCHANGED <<storageCfg, cachedConfig, isRebuildingMenus, lastInvalidated, rebuildRuns>>
  /\ UNCHANGED <<now, pageVars, execVars, csVars, runVars, waitVars, dataVars, parseVars, dispVars, builtVars, restVars>>

AfterRebuild(p) == IF p = InstallProc THEN "done" ELSE "tabsQuery"

\* The settling delay ends and loadConfig is called. With a cached value the
\* menus are created from it in the same task and the finally block clears the
\* flag; otherwise getConfig() is awaited.
DelayDone(p) ==
  /\ proc[p].pc = "delay"
  /\ IF cachedConfig # 0
       THEN /\ menuTree' = cachedConfig
            /\ isRebuildingMenus' = FALSE
            /\ proc' = [proc EXCEPT ![p].pc = AfterRebuild(p)]
       ELSE /\ proc' = [proc EXCEPT ![p].pc = "rebuildLoad", ![p].get = "called"]
            /\ UNCHANGED <<menuTree, isRebuildingMenus>>
  /\ UNCHANGED <<storageCfg, cachedConfig, lastInvalidated, rebuildRuns>>
  /\ UNCHANGED <<now, pageVars, execVars, csVars, runVars, waitVars, dataVars, parseVars, dispVars, builtVars, restVars>>

\* getConfig() reads chrome.storage.sync: it sees the version stored then
GetConfigRead(p) ==
  /\ proc[p].get = "called"
  /\ proc' = [proc EXCEPT ![p].get = "read", ![p].snap = storageCfg]
  /\ UNCHANGED <<storageCfg, cachedConfig, isRebuildingMenus, menuTree,
                 lastInvalidated, rebuildRuns>>
  /\ UNCHANGED <<now, pageVars, execVars, csVars, runVars, waitVars, dataVars, parseVars, dispVars, builtVars, restVars>>

\* getConfig() resolves: loadConfig stores the value in the cache and returns
\* it, and the caller continues in the same task.
GetConfigResolve(p) ==
  /\ proc[p].get = "read"
  /\ cachedConfig' = proc[p].snap
  /\ CASE proc[p].pc = "rebuildLoad" ->
            /\ menuTree' = proc[p].snap
            /\ isRebuildingMenus' = FALSE
            /\ proc' = [proc EXCEPT ![p].pc = AfterRebuild(p), ![p].get = "none", ![p].snap = 0]
       [] proc[p].pc = "clickLoad" ->      \* line 250: executeAction starts with this config
            /\ proc' = [proc EXCEPT ![p].pc = "creating", ![p].get = "none",
                                    ![p].ret = proc[p].snap, ![p].snap = 0]
            /\ UNCHANGED <<menuTree, isRebuildingMenus>>
       [] proc[p].pc = "openLoad" ->       \* line 519: the title substring comes from this config
            /\ proc' = [proc EXCEPT ![p].pc = "done", ![p].get = "none",
                                    ![p].sent = proc[p].snap, ![p].snap = 0]
            /\ UNCHANGED <<menuTree, isRebuildingMenus>>
       [] proc[p].pc = "handlerLoad" ->
            /\ proc' = [proc EXCEPT ![p].pc = "done", ![p].get = "none",
                                    ![p].sent = proc[p].snap, ![p].snap = 0]
            /\ UNCHANGED <<menuTree, isRebuildingMenus>>
       [] OTHER ->
            /\ proc' = [proc EXCEPT ![p].pc = "done", ![p].get = "none",
                                    ![p].ret = proc[p].snap, ![p].snap = 0]
            /\ UNCHANGED <<menuTree, isRebuildingMenus>>
  /\ UNCHANGED <<storageCfg, lastInvalidated, rebuildRuns>>
  /\ UNCHANGED <<now, pageVars, execVars, csVars, runVars, waitVars, dataVars, parseVars, dispVars, builtVars, restVars>>

\* The change handler after rebuildContextMenus: chrome.tabs.query resolves,
\* loadConfig is called and SHORTCUTS_UPDATED is sent to every tab.
TabsQueryDone(p) ==
  /\ proc[p].pc = "tabsQuery"
  /\ IF cachedConfig # 0
       THEN proc' = [proc EXCEPT ![p].pc = "done", ![p].sent = cachedConfig]
       ELSE proc' = [proc EXCEPT ![p].pc = "handlerLoad", ![p].get = "called"]
  /\ UNCHANGED <<storageCfg, cachedConfig, isRebuildingMenus, menuTree,
                 lastInvalidated, rebuildRuns>>
  /\ UNCHANGED <<now, pageVars, execVars, csVars, runVars, waitVars, dataVars, parseVars, dispVars, builtVars, restVars>>

\* Another caller of loadConfig (the GET_SHORTCUTS handler, a menu click)
LoadConfigCall(p) ==
  /\ p \in Loaders
  /\ proc[p].pc = "idle"
  /\ \A q \in Loaders : q < p => proc[q].pc # "idle"      \* the callers are numbered as they come
  /\ IF cachedConfig # 0
       THEN proc' = [proc EXCEPT ![p].pc = "done", ![p].ret = cachedConfig,
                                 ![p].floor = lastInvalidated]
       ELSE proc' = [proc EXCEPT ![p].pc = "load", ![p].get = "called",
                                 ![p].floor = lastInvalidated]
  /\ UNCHANGED <<storageCfg, cachedConfig, isRebuildingMenus, menuTree,
                 lastInvalidated, rebuildRuns>>
  /\ UNCHANGED <<now, pageVars, execVars, csVars, runVars, waitVars, dataVars, parseVars, dispVars, builtVars, restVars>>

\* chrome.contextMenus.onClicked: "const config = await loadConfig()", then
\* executeAction(action, text, menu, config) up to the await of tabs.create in
\* openOrFocusGptTab. ret is the configuration the operation was started with.
ClickStart ==
  /\ proc[ClickProc].pc = "idle"
  /\ IF cachedConfig # 0
       THEN proc' = [proc EXCEPT ![ClickProc].pc = "creating",
                                 ![ClickProc].ret = cachedConfig]
       ELSE proc' = [proc EXCEPT ![ClickProc].pc = "clickLoad",
                                 ![ClickProc].get = "called"]
  /\ UNCHANGED <<storageCfg, cachedConfig, isRebuildingMenus, menuTree,
                 lastInvalidated, rebuildRuns>>
  /\ UNCHANGED <<now, pageVars, execVars, csVars, runVars, waitVars, dataVars, parseVars, dispVars, builtVars, restVars>>

\* openOrFocusGptTab: chrome.tabs.create resolves, then "const config = await
\* loadConfig()" supplies gptTitleMatch. sent is the configuration whose title
\* substring the readiness wait uses.
ClickTabCreated ==
  /\ proc[ClickProc].pc = "creating"
  /\ IF cachedConfig # 0
       THEN proc' = [proc EXCEPT ![ClickProc].pc = "done",
                                 ![ClickProc].sent = cachedConfig]
       ELSE proc' = [proc EXCEPT ![ClickProc].pc = "openLoad",
                                 ![ClickProc].get = "called"]
  /\ UNCHANGED <<storageCfg, cachedConfig, isRebuildingMenus, menuTree,
                 lastInvalidated, rebuildRuns>>
  /\ UNCHANGED <<now, pageVars, execVars, csVars, runVars, waitVars, dataVars, parseVars, dispVars, builtVars, restVars>>

NextMenu ==
  \/ StorageSet
  \/ InstallStart
  \/ \E p \in Procs : HandlerStart(p)
  \/ \E p \in Procs : RemoveAllDone(p)
  \/ \E p \in Procs : DelayDone(p)
  \/ \E p \in Procs : GetConfigRead(p)
  \/ \E p \in Procs : GetConfigResolve(p)
  \/ \E p \in Procs : TabsQueryDone(p)
  \/ \E p \in Procs : LoadConfigCall(p)

-----------------------------------------------------------------------------
(* background.js: the function injected into the target page               *)

DEBOUNCE_MS == 10000
MAX_TRIES == 40
INTERVAL == 200
SUBMIT_DELAY == 150
SUBMIT_MAX == 10
SUBMIT_INTERVAL == 200

MaxDeliveries == 3
MaxTicks == 100
PageMaxTicks == 60
IdleTicks == 10
MaxTime == MaxTicks * INTERVAL
PageMaxTime == PageMaxTicks * INTERVAL

Runs == 1..MaxDeliveries

NoRun == [pc |-> "none", reqId |-> 0, shouldSubmit |-> FALSE, tries |-> 0,
          nextPoll |-> 0, res |-> Null, subPc |-> "none", subDue |-> 0,
          subTries |-> 0]

InitPage ==
  /\ jseState = [lastReqId |-> 0, lastReqAt |-> 0]
  /\ editorVisible \in BOOLEAN
  /\ inst = [i \in Runs |-> NoRun]
  /\ insertions = 0
  /\ alerts = 0
  /\ submitActs = <<>>
  /\ deliveries = <<>>

\* "if (g.lastReqId === requestId && now - (g.lastReqAt || 0) < DEBOUNCE_MS)"
Debounced(g, requestId, t) ==
  g.lastReqId = requestId /\ t - g.lastReqAt < DEBOUNCE_MS

\* "return { inserted: false, submitted: false, skipped: true }"
SkippedResult == [inserted |-> FALSE, submitted |-> FALSE, skipped |-> TRUE]

\* what tryOnce returns after an insertion
Inserted(shouldSubmit) ==
  [inserted |-> TRUE, submitted |-> shouldSubmit, skipped |-> FALSE]

\* A faulty variant: the polling timer is not cleared after the insertion.
AfterInsertKeepsPolling(r) ==
  [r EXCEPT !.pc = "polling", !.res = Inserted(r.shouldSubmit),
            !.nextPoll = now + INTERVAL,
            !.subPc = IF r.shouldSubmit THEN "scheduled" ELSE "none",
            !.subDue = IF r.shouldSubmit THEN now + SUBMIT_DELAY ELSE 0]

\* A faulty variant: the submit timer is set whatever shouldSubmit is.
AfterInsertSubmits(r) ==
  [r EXCEPT !.pc = "done", !.res = Inserted(r.shouldSubmit),
            !.tries = 0, !.nextPoll = 0,
            !.subPc = "scheduled",
            !.subDue = now + SUBMIT_DELAY]

\* the run r after tryOnce has inserted the text: the submit is left to a timer
AfterInsert(r) ==
  [r EXCEPT !.pc = "done", !.res = Inserted(r.shouldSubmit),
            !.tries = 0, !.nextPoll = 0,
            !.subPc = IF r.shouldSubmit THEN "scheduled" ELSE "none",
            !.subDue = IF r.shouldSubmit THEN now + SUBMIT_DELAY ELSE 0]

\* The injected function from its start to its first suspension, as run i:
\* the debounce, then the immediate tryOnce, then the polling timer.
PageRun(i, requestId, shouldSubmit) ==
  LET r == [NoRun EXCEPT !.reqId = requestId, !.shouldSubmit = shouldSubmit]
  IN IF Debounced(jseState, requestId, now)
       THEN /\ inst' = [inst EXCEPT ![i] =
                          [r EXCEPT !.pc = "done", !.res = SkippedResult]]
            /\ UNCHANGED <<jseState, insertions>>
       ELSE /\ jseState' = [lastReqId |-> requestId, lastReqAt |-> now]
            /\ IF editorVisible
                 THEN /\ inst' = [inst EXCEPT ![i] = AfterInsert(r)]
                      /\ insertions' = insertions + 1
                 ELSE /\ inst' = [inst EXCEPT ![i] =
                                    [r EXCEPT !.pc = "polling", !.nextPoll = now + INTERVAL]]
                      /\ UNCHANGED insertions

\* an alert() of the page is open: its scripts and timers are blocked
PageBlocked == \E i \in Runs : inst[i].pc = "alert"

\* A faulty variant of the limit: one more poll before giving up.
GivesUpLate(tries) == tries >= MAX_TRIES + 1

\* "else if (++tries >= MAX_TRIES_LOCAL)", on the incremented counter
GivesUp(tries) == tries >= MAX_TRIES

\* "resolve({ inserted: false, submitted: false, skipped: false })"
NotInserted == [inserted |-> FALSE, submitted |-> FALSE, skipped |-> FALSE]

\* One firing of the setInterval timer of run i
Poll(i) ==
  /\ inst[i].pc = "polling"
  /\ inst[i].nextPoll <= now
  /\ ~PageBlocked
  /\ IF editorVisible
       THEN /\ inst' = [inst EXCEPT ![i] = AfterInsert(inst[i])]
            /\ insertions' = insertions + 1
            /\ UNCHANGED alerts
       ELSE /\ UNCHANGED insertions
            /\ IF GivesUp(inst[i].tries + 1)
                 THEN /\ inst' = [inst EXCEPT ![i].pc = "alert",
                                              ![i].tries = inst[i].tries + 1]
                      /\ alerts' = alerts + 1
                 ELSE /\ inst' = [inst EXCEPT ![i].tries = inst[i].tries + 1,
                                              ![i].nextPoll = inst[i].nextPoll + INTERVAL]
                      /\ UNCHANGED alerts
  /\ UNCHANGED <<jseState, editorVisible, submitActs, deliveries>>
  /\ UNCHANGED <<now, execVars, csVars, menuVars, runVars, waitVars, dataVars, parseVars, dispVars, builtVars, restVars>>

\* The user closes the alert: the promise resolves with a failure
AlertDismiss(i) ==
  /\ inst[i].pc = "alert"
  /\ inst' = [inst EXCEPT ![i].pc = "done", ![i].tries = 0, ![i].nextPoll = 0,
                          ![i].res = NotInserted]
  /\ UNCHANGED <<jseState, editorVisible, insertions, alerts, submitActs, deliveries>>
  /\ UNCHANGED <<now, execVars, csVars, menuVars, runVars, waitVars, dataVars, parseVars, dispVars, builtVars, restVars>>

\* A faulty variant: form.requestSubmit() follows the Enter that was sent.
EnterThenForm(i, enterThrows, hasRequestSubmit) ==
  IF ~enterThrows
    THEN /\ submitActs' = submitActs \o <<"enter", "requestSubmit">>
         /\ inst' = [inst EXCEPT ![i].subPc = "entered", ![i].subDue = 0]
    ELSE IF hasRequestSubmit
      THEN /\ submitActs' = Append(submitActs, "requestSubmit")
           /\ inst' = [inst EXCEPT ![i].subPc = "formSubmitted", ![i].subDue = 0]
      ELSE /\ UNCHANGED submitActs
           /\ inst' = [inst EXCEPT ![i].subPc = "failed", ![i].subDue = 0]

\* enter(editorEl): the synthetic Enter, or form.requestSubmit() when the
\* dispatch throws, or nothing
Enter(i, enterThrows, hasRequestSubmit) ==
  IF ~enterThrows
    THEN /\ submitActs' = Append(submitActs, "enter")
         /\ inst' = [inst EXCEPT ![i].subPc = "entered", ![i].subDue = 0]
    ELSE IF hasRequestSubmit
      THEN /\ submitActs' = Append(submitActs, "requestSubmit")
           /\ inst' = [inst EXCEPT ![i].subPc = "formSubmitted", ![i].subDue = 0]
      ELSE /\ UNCHANGED submitActs
           /\ inst' = [inst EXCEPT ![i].subPc = "failed", ![i].subDue = 0]

\* tick(): click when the button is enabled, give up for Enter at the 10th
\* disabled look, else look again in 200 ms
SubmitTick(i, disabled, enterThrows, hasRequestSubmit) ==
  IF ~disabled
    THEN /\ submitActs' = Append(submitActs, "click")
         /\ inst' = [inst EXCEPT ![i].subPc = "clicked", ![i].subDue = 0]
    ELSE IF inst[i].subTries + 1 >= SUBMIT_MAX
      THEN Enter(i, enterThrows, hasRequestSubmit)
      ELSE /\ inst' = [inst EXCEPT ![i].subPc = "polling",
                                   ![i].subTries = inst[i].subTries + 1,
                                   ![i].subDue = now + SUBMIT_INTERVAL]
           /\ UNCHANGED submitActs

\* The timer set by tryOnce fires: submit(editor)
SubmitStart(i, btnFound, disabled, enterThrows, hasRequestSubmit) ==
  /\ inst[i].subPc = "scheduled"
  /\ inst[i].subDue <= now
  /\ ~PageBlocked
  /\ IF btnFound
       THEN SubmitTick(i, disabled, enterThrows, hasRequestSubmit)
       ELSE Enter(i, enterThrows, hasRequestSubmit)
  /\ UNCHANGED <<jseState, editorVisible, insertions, alerts, deliveries>>
  /\ UNCHANGED <<now, execVars, csVars, menuVars, runVars, waitVars, dataVars, parseVars, dispVars, builtVars, restVars>>

\* A later firing of tick()
SubmitPoll(i, disabled, enterThrows, hasRequestSubmit) ==
  /\ inst[i].subPc = "polling"
  /\ inst[i].subDue <= now
  /\ ~PageBlocked
  /\ SubmitTick(i, disabled, enterThrows, hasRequestSubmit)
  /\ UNCHANGED <<jseState, editorVisible, insertions, alerts, deliveries>>
  /\ UNCHANGED <<now, execVars, csVars, menuVars, runVars, waitVars, dataVars, parseVars, dispVars, builtVars, restVars>>

\* The target application renders its composer
EditorAppears ==
  /\ ~editorVisible
  /\ editorVisible' = TRUE
  /\ UNCHANGED <<jseState, inst, insertions, alerts, submitActs, deliveries>>
  /\ UNCHANGED <<now, execVars, csVars, menuVars, runVars, waitVars, dataVars, parseVars, dispVars, builtVars, restVars>>

\* a page timer is due and the page can run it
PageDue ==
  /\ ~PageBlocked
  /\ \E i \in Runs : \/ inst[i].pc = "polling" /\ inst[i].nextPoll <= now
                     \/ inst[i].subPc \in {"scheduled", "polling"} /\ inst[i].subDue <= now

PagePending ==
  \E i \in Runs : inst[i].pc \in {"polling", "alert"} \/ inst[i].subPc \in {"scheduled", "polling"}

-----------------------------------------------------------------------------
(* Deliveries of the injected function to one page, by any sender *)

ReqIds == 1..2

\* chrome.scripting.executeScript runs the function in the page. Senders
\* deliver on a grid of IdleTicks ticks.
Deliver(requestId, shouldSubmit) ==
  /\ Len(deliveries) < MaxDeliveries
  /\ now % (IdleTicks * INTERVAL) = 0
  /\ ~PageBlocked
  /\ PageRun(Len(deliveries) + 1, requestId, shouldSubmit)
  /\ deliveries' = Append(deliveries,
                          [id |-> requestId, at |-> now,
                           skipped |-> inst'[Len(deliveries) + 1].res = SkippedResult])
  /\ UNCHANGED <<editorVisible, alerts, submitActs>>
  /\ UNCHANGED <<now, execVars, csVars, menuVars, runVars, waitVars, dataVars, parseVars, dispVars, builtVars, restVars>>

-----------------------------------------------------------------------------
(* background.js: executeAction and tryInjectWithTiming *)

RETRY_DELAY == 1200

InitExec ==
  /\ exPc = "start"
  /\ exAutoSubmit = FALSE
  /\ exReqId = 0
  /\ nextReqId = 1
  /\ attempts = <<>>
  /\ retryDue = 0
  /\ ok1At = 0
  /\ tabs = 0
  /\ exEntry = "none"
  /\ createdTab = 0
  /\ openOutcome = "none"

\* A faulty variant of the normalization: success needs inserted and submitted.
NormalizeStrict(res) ==
  res # Null /\ res.inserted /\ res.submitted /\ ~res.skipped

\* "const ok = !!(res && (res.inserted || res.submitted) && !res.skipped)"
NormalizeResult(res) ==
  res # Null /\ (res.inserted \/ res.submitted) /\ ~res.skipped

\* A faulty variant of the retry condition: the retry is scheduled whatever attempt #1 returned.
ShouldRetryAlways(ok1) == TRUE

\* "if (!ok1) setTimeout(...)"
ShouldRetry(ok1) == ~ok1

\* the reqId handed to attempt #2: the try block's const reqId
RetryReqId(first) == first

\* The callers of executeAction: the contextMenus.onClicked listener awaits it
\* bare, handleShortcutExecution awaits it inside try/catch.
Entries == {"click", "shortcut"}

\* a rejection of executeAction reaches its caller
Rejects(entry) == IF entry = "shortcut" THEN "caught" ELSE "escaped"

\* A faulty variant of the catch block: the plain tab is opened and no attempt
\* is scheduled.
CatchOpensOnly(entry, createThrows) ==
  IF createThrows
    THEN /\ exPc' = Rejects(entry)
         /\ UNCHANGED <<tabs, exReqId, nextReqId, retryDue, attempts, ok1At>>
    ELSE /\ tabs' = tabs + 1
         /\ exPc' = "done"
         /\ UNCHANGED <<exReqId, nextReqId, retryDue, attempts, ok1At>>

\* the catch block of executeAction: a plain tab, and one attempt in 1.2 s
\* with a request id of its own; when this chrome.tabs.create throws as well
\* executeAction rejects
Catch(entry, createThrows) ==
  IF createThrows
    THEN /\ exPc' = Rejects(entry)
         /\ UNCHANGED <<tabs, exReqId, nextReqId, retryDue, attempts, ok1At>>
    ELSE /\ tabs' = tabs + 1
         /\ exReqId' = nextReqId
         /\ nextReqId' = nextReqId + 1
         /\ retryDue' = now + RETRY_DELAY
         /\ exPc' = "fallbackWait"
         /\ UNCHANGED <<attempts, ok1At>>

\* executeAction up to the await of openOrFocusGptTab's chrome.tabs.create
ExecuteAction(entry, autoSubmit, createThrows, fallbackThrows) ==
  /\ exPc = "start"
  /\ exEntry' = entry
  /\ exAutoSubmit' = autoSubmit
  /\ IF createThrows
       THEN /\ Catch(entry, fallbackThrows)
            /\ createdTab' = 0
            /\ openOutcome' = "createThrew"
       ELSE /\ tabs' = tabs + 1
            /\ createdTab' = tabs + 1
            /\ exPc' = "opening"
            /\ UNCHANGED <<exReqId, nextReqId, attempts, retryDue, ok1At, openOutcome>>
  /\ UNCHANGED <<now, pageVars>>
  /\ UNCHANGED <<csVars, menuVars, runVars, waitVars, dataVars, parseVars, dispVars, builtVars, restVars>>

\* tryInjectWithTiming up to its await: executeScript throws, and the catch
\* returns false, or the function starts in the page as run k
StartAttempt(label, reqId, tabId, scriptThrows) ==
  LET k == Len(attempts) + 1
      a == [label |-> label, reqId |-> reqId, tab |-> tabId, at |-> now, res |-> Null,
            ok |-> FALSE, state |-> "running", threw |-> scriptThrows]
  IN /\ attempts' = Append(attempts, a)
     /\ IF scriptThrows
          THEN UNCHANGED <<jseState, inst, insertions>>
          ELSE PageRun(k, reqId, exAutoSubmit)
     /\ UNCHANGED <<editorVisible, alerts, submitActs, deliveries>>

\* openOrFocusGptTab settles: the tab is ready and attempt #1 starts, or
\* waitForTitleMatch rejects and the catch block runs
OpenDone(outcome, scriptThrows, fallbackThrows) ==
  /\ exPc = "opening"
  /\ openOutcome' = outcome
  /\ IF outcome = "ready"
       THEN /\ exReqId' = nextReqId
            /\ nextReqId' = nextReqId + 1
            /\ StartAttempt("attempt#1", nextReqId, createdTab, scriptThrows)
            /\ exPc' = "attempt1"
            /\ UNCHANGED <<retryDue, ok1At, tabs>>
       ELSE /\ Catch(exEntry, fallbackThrows)
            /\ UNCHANGED pageVars
  /\ UNCHANGED <<now, exAutoSubmit, exEntry, createdTab>>
  /\ UNCHANGED <<csVars, menuVars, runVars, waitVars, dataVars, parseVars, dispVars, builtVars, restVars>>

\* tryInjectWithTiming returns: the result of the page (null when the script
\* threw) is normalized; after attempt #1 the retry is scheduled or not
AttemptReturns ==
  LET k == Len(attempts)
      res == IF attempts[k].threw THEN Null ELSE inst[k].res
      ok == NormalizeResult(res)
  IN /\ exPc \in {"attempt1", "attempt2", "fallback"}
     /\ attempts[k].state = "running"
     /\ attempts[k].threw \/ inst[k].pc = "done"
     /\ attempts' = [attempts EXCEPT ![k].res = res, ![k].ok = ok,
                                     ![k].state = "returned"]
     /\ IF exPc = "attempt1"
          THEN /\ ok1At' = now
               /\ IF ShouldRetry(ok)
                    THEN /\ retryDue' = now + RETRY_DELAY
                         /\ exPc' = "retryWait"
                    ELSE /\ exPc' = "done"
                         /\ UNCHANGED retryDue
          ELSE /\ exPc' = "done"
               /\ UNCHANGED <<ok1At, retryDue>>
     /\ UNCHANGED <<now, pageVars, exAutoSubmit, exReqId, nextReqId, tabs,
                    exEntry, createdTab, openOutcome>>
  /\ UNCHANGED <<csVars, menuVars, runVars, waitVars, dataVars, parseVars, dispVars, builtVars, restVars>>

\* the retry timer fires: attempt #2 on the same tab
RetryFires(scriptThrows) ==
  /\ exPc = "retryWait"
  /\ retryDue <= now
  /\ ~PageBlocked
  /\ StartAttempt("attempt#2", RetryReqId(exReqId), attempts[1].tab, scriptThrows)
  /\ exPc' = "attempt2"
  /\ UNCHANGED <<now, exAutoSubmit, exReqId, nextReqId, retryDue, ok1At, tabs,
                 exEntry, createdTab, openOutcome>>
  /\ UNCHANGED <<csVars, menuVars, runVars, waitVars, dataVars, parseVars, dispVars, builtVars, restVars>>

\* the fallback timer fires: one attempt on the plain tab
FallbackFires(scriptThrows) ==
  /\ exPc = "fallbackWait"
  /\ retryDue <= now
  /\ StartAttempt("fallback", exReqId, tabs, scriptThrows)
  /\ exPc' = "fallback"
  /\ UNCHANGED <<now, exAutoSubmit, exReqId, nextReqId, retryDue, ok1At, tabs,
                 exEntry, createdTab, openOutcome>>
  /\ UNCHANGED <<csVars, menuVars, runVars, waitVars, dataVars, parseVars, dispVars, builtVars, restVars>>

BgDue == exPc \in {"retryWait", "fallbackWait"} /\ retryDue <= now
BgPending == exPc \in {"retryWait", "fallbackWait"}

-----------------------------------------------------------------------------
(* background.js: runAllActions *)

MaxActions == 3
MaxOrder == 2

ActionIds == 1..MaxActions

\* the menus of the configuration: every list of MaxActions actions
Menus == [ActionIds -> [enabled : BOOLEAN, order : 1..MaxOrder]]

InitRunAll ==
  /\ raPc = "idle"
  /\ raActions = <<>>
  /\ createCalls = <<>>
  /\ pipe = [a \in ActionIds |-> "none"]

\* A faulty variant of the filter: every action is kept.
FilterAll(menu) == [i \in 1..Len(menu) |-> i]

\* "menu.actions.filter(action => action.enabled)", as the positions kept
FilterEnabled(menu) == SelectSeq([i \in 1..Len(menu) |-> i], LAMBDA i : menu[i].enabled)

\* one step of the stable sort: a is placed after the elements not above it
RECURSIVE InsertByOrder(_, _, _)
InsertByOrder(sorted, a, menu) ==
  IF sorted = <<>> THEN <<a>>
  ELSE IF menu[Head(sorted)].order - menu[a].order <= 0
         THEN <<Head(sorted)>> \o InsertByOrder(Tail(sorted), a, menu)
         ELSE <<a>> \o sorted

\* ".sort((a, b) => a.order - b.order)": Array.prototype.sort is stable
RECURSIVE SortByOrder(_, _)
SortByOrder(list, menu) ==
  IF list = <<>> THEN <<>>
  ELSE InsertByOrder(SortByOrder(SubSeq(list, 1, Len(list) - 1), menu),
                     list[Len(list)], menu)

Listed(list) == {list[i] : i \in 1..Len(list)}

\* runAllActions up to "await Promise.all(tabCreationPromises)": the enabled
\* actions are sorted, and map() runs every async callback up to its
\* chrome.tabs.create call, in list order.
RunAllStart(menu) ==
  LET enabledActions == SortByOrder(FilterEnabled(menu), menu)
  IN /\ raPc = "idle"
     /\ raActions' = menu
     /\ createCalls' = [i \in 1..Len(enabledActions) |->
                          [action |-> enabledActions[i], active |-> FALSE]]
     /\ pipe' = [a \in ActionIds |->
                   IF a \in Listed(enabledActions) THEN "creating" ELSE "none"]
     /\ raPc' = IF enabledActions = <<>> THEN "done" ELSE "tabs"
     /\ UNCHANGED <<now, pageVars, execVars, csVars, menuVars, waitVars, dataVars, parseVars, dispVars, builtVars, restVars>>

\* A faulty variant of the callback: no try/catch around the tab's creation.
CatchesNothing == FALSE

\* "try { ... } catch (e) { ...; return null; }" in the tab-creation callback
CatchesTabFailure == TRUE

\* chrome.tabs.create or waitForTitleMatch rejects for action a
PipelineFails(a) ==
  IF CatchesTabFailure
    THEN /\ pipe' = [pipe EXCEPT ![a] = "null"]
         /\ UNCHANGED raPc
    ELSE /\ pipe' = [pipe EXCEPT ![a] = "threw"]
         /\ raPc' = "aborted"        \* Promise.all rejects, runAllActions throws

\* chrome.tabs.create settles for action a
TabCreateSettles(a, throws) ==
  /\ raPc = "tabs"
  /\ pipe[a] = "creating"
  /\ IF throws
       THEN PipelineFails(a)
       ELSE /\ pipe' = [pipe EXCEPT ![a] = "waiting"]
            /\ UNCHANGED raPc
  /\ UNCHANGED <<raActions, createCalls>>
  /\ UNCHANGED <<now, pageVars, execVars, csVars, menuVars, waitVars, dataVars, parseVars, dispVars, builtVars, restVars>>

\* waitForTitleMatch settles for the tab of action a
TitleWaitSettles(a, outcome) ==
  /\ raPc = "tabs"
  /\ pipe[a] = "waiting"
  /\ IF outcome = "ready"
       THEN /\ pipe' = [pipe EXCEPT ![a] = "ready"]
            /\ UNCHANGED raPc
       ELSE PipelineFails(a)
  /\ UNCHANGED <<raActions, createCalls>>
  /\ UNCHANGED <<now, pageVars, execVars, csVars, menuVars, waitVars, dataVars, parseVars, dispVars, builtVars, restVars>>

\* A faulty variant of the barrier: one ready tab is enough.
SomeTabReady == \E a \in ActionIds : pipe[a] = "ready"

\* "await Promise.all(tabCreationPromises)" resolves: every callback returned
AllTabsSettled == \A a \in ActionIds : pipe[a] \in {"none", "ready", "null"}

\* Step 2: tryInjectWithTiming is called for every tab that became ready
StartInjections ==
  /\ raPc = "tabs"
  /\ AllTabsSettled
  /\ pipe' = [a \in ActionIds |-> IF pipe[a] = "ready" THEN "injecting" ELSE pipe[a]]
  /\ raPc' = IF \E a \in ActionIds : pipe[a] = "ready" THEN "inject" ELSE "done"
  /\ UNCHANGED <<raActions, createCalls>>
  /\ UNCHANGED <<now, pageVars, execVars, csVars, menuVars, waitVars, dataVars, parseVars, dispVars, builtVars, restVars>>

\* attempt #1 of action a returns (false also when executeScript threw); a
\* failure leaves the retry to a timer. The last one to return ends
\* "await Promise.all(promises)".
InjectionReturns(a, ok1) ==
  /\ raPc = "inject"
  /\ pipe[a] = "injecting"
  /\ pipe' = [pipe EXCEPT ![a] = IF ok1 THEN "ok" ELSE "retryWait"]
  /\ raPc' = IF \A b \in ActionIds \ {a} : pipe[b] # "injecting" THEN "done" ELSE "inject"
  /\ UNCHANGED <<raActions, createCalls>>
  /\ UNCHANGED <<now, pageVars, execVars, csVars, menuVars, waitVars, dataVars, parseVars, dispVars, builtVars, restVars>>

\* the retry timer of action a fires: attempt #2, its result is dropped
RunAllRetry(a) ==
  /\ pipe[a] = "retryWait"
  /\ pipe' = [pipe EXCEPT ![a] = "retried"]
  /\ UNCHANGED <<raPc, raActions, createCalls>>
  /\ UNCHANGED <<now, pageVars, execVars, csVars, menuVars, waitVars, dataVars, parseVars, dispVars, builtVars, restVars>>

NextRunAll ==
  \/ \E menu \in Menus : RunAllStart(menu)
  \/ \E a \in ActionIds, throws \in BOOLEAN : TabCreateSettles(a, throws)
  \/ \E a \in ActionIds, outcome \in {"ready", "timeout", "closed"} : TitleWaitSettles(a, outcome)
  \/ StartInjections
  \/ \E a \in ActionIds, ok1 \in BOOLEAN : InjectionReturns(a, ok1)
  \/ \E a \in ActionIds : RunAllRetry(a)

-----------------------------------------------------------------------------
(* background.js: waitForTitleMatch *)

InitWait ==
  /\ wPc = "idle"
  /\ wErr = "none"
  /\ wListener = FALSE
  /\ wStart = 0
  /\ wPoll = "stopped"
  /\ wPollDue = 0
  /\ tabOpen = TRUE
  /\ titleMatches = FALSE

TIMEOUT_MS == 20000
POLL_MS == 250

WaitMaxTicks == 84
WaitMaxTime == WaitMaxTicks * POLL_MS

\* resolve(id) / reject(e): a promise settles once, later calls do nothing
Settle(state, err) ==
  IF wPc = "pending"
    THEN wPc' = state /\ wErr' = err
    ELSE UNCHANGED <<wPc, wErr>>

\* "const ok = (tab.title || '').toLowerCase().includes(titleSubstring.toLowerCase())"
\* is kept as the flag titleMatches of the tab.

\* waitForTitleMatch is called: the listener is added and poll() runs up to
\* its "await chrome.tabs.get(tabId)"
WaitStart ==
  /\ wPc = "idle"
  /\ wPc' = "pending"
  /\ wListener' = TRUE
  /\ wStart' = now
  /\ wPoll' = "get"
  /\ UNCHANGED <<wErr, wPollDue, tabOpen, titleMatches>>
  /\ UNCHANGED <<now, pageVars, execVars, csVars, menuVars, runVars, dataVars, parseVars, dispVars, builtVars, restVars>>

\* A faulty variant of the timeout test: it never gives up.
NeverTimedOut(t) == FALSE

\* "if (Date.now() - start > timeoutMs)"
TimedOut(t) == t - wStart > TIMEOUT_MS

\* chrome.tabs.get settles inside poll(). For a tab that no longer exists it
\* rejects (missing = "rejects": the catch block runs) or yields no tab
\* (missing = "undefined": the "if (!t)" branch runs).
TabsGetReturns(missing) ==
  /\ wPoll = "get"
  /\ IF ~tabOpen
       THEN IF missing = "undefined"
              THEN /\ Settle("rejected", "Tab closed")
                   /\ wPoll' = "stopped"
                   /\ UNCHANGED <<wListener, wPollDue>>
              ELSE /\ Settle("rejected", "tabs.get error")
                   /\ wListener' = FALSE
                   /\ wPoll' = "stopped"
                   /\ UNCHANGED wPollDue
       ELSE IF titleMatches
              THEN /\ Settle("resolved", "none")
                   /\ wListener' = FALSE
                   /\ wPoll' = "stopped"
                   /\ UNCHANGED wPollDue
              ELSE IF TimedOut(now)
                     THEN /\ Settle("rejected", "Timed out waiting for title match")
                          /\ wListener' = FALSE
                          /\ wPoll' = "stopped"
                          /\ UNCHANGED wPollDue
                     ELSE /\ wPoll' = "timer"
                          /\ wPollDue' = now + POLL_MS
                          /\ UNCHANGED <<wPc, wErr, wListener>>
  /\ UNCHANGED <<wStart, tabOpen, titleMatches>>
  /\ UNCHANGED <<now, pageVars, execVars, csVars, menuVars, runVars, dataVars, parseVars, dispVars, builtVars, restVars>>

\* "setTimeout(poll, 250)" fires: poll() runs up to its await
PollTimer ==
  /\ wPoll = "timer"
  /\ wPollDue <= now
  /\ wPoll' = "get"
  /\ UNCHANGED <<wPc, wErr, wListener, wStart, wPollDue, tabOpen, titleMatches>>
  /\ UNCHANGED <<now, pageVars, execVars, csVars, menuVars, runVars, dataVars, parseVars, dispVars, builtVars, restVars>>

\* The tab's title changes and chrome.tabs.onUpdated fires with info.title:
\* onUpdated, when still registered, calls done() for a matching title
TitleChanges(matches) ==
  /\ tabOpen
  /\ matches # titleMatches
  /\ titleMatches' = matches
  /\ IF wListener /\ matches
       THEN /\ Settle("resolved", "none")
            /\ wListener' = FALSE
       ELSE UNCHANGED <<wPc, wErr, wListener>>
  /\ UNCHANGED <<wStart, wPoll, wPollDue, tabOpen>>
  /\ UNCHANGED <<now, pageVars, execVars, csVars, menuVars, runVars, dataVars, parseVars, dispVars, builtVars, restVars>>

\* The tab is closed
TabCloses ==
  /\ tabOpen
  /\ tabOpen' = FALSE
  /\ UNCHANGED <<wPc, wErr, wListener, wStart, wPoll, wPollDue, titleMatches>>
  /\ UNCHANGED <<now, pageVars, execVars, csVars, menuVars, runVars, dataVars, parseVars, dispVars, builtVars, restVars>>

\* 250 ms pass while the poll timer is not due and no tabs.get is awaited
WaitTick ==
  /\ now < WaitMaxTime
  /\ wPoll = "timer"
  /\ wPollDue > now
  /\ now' = now + POLL_MS
  /\ UNCHANGED <<pageVars, execVars, csVars, menuVars, runVars, waitVars, dataVars, parseVars, dispVars, builtVars, restVars>>

NextWait ==
  \/ WaitStart
  \/ \E missing \in {"rejects", "undefined"} : TabsGetReturns(missing)
  \/ PollTimer
  \/ \E matches \in BOOLEAN : TitleChanges(matches)
  \/ TabCloses
  \/ WaitTick

-----------------------------------------------------------------------------
(* background.js: the text path of executeAction                           *)
(*                                                                         *)
(* What one request writes: the prompt, the url of its tab, and the text   *)
(* of the composer after setValue. A text is a sequence of pieces.         *)

ActionPrompts == {<<"Summarize:">>, <<"Fix", " ", "grammar:">>}
Selections == {<<"Acme Corp">>, <<"x">>}
MenuUrl == <<"https://chatgpt.com/g/g-abc">>

\* what the composer of the loaded page holds before the injection: nothing,
\* or a text of its own (a restored draft, a prefilled query)
Composers == {<<>>, <<"draft">>}

InitData ==
  /\ dPc = "idle"
  /\ dAction = <<>>
  /\ dSelection = <<>>
  /\ dClear = FALSE
  /\ dText = <<>>
  /\ dUrl = Null
  /\ dPath = "none"
  /\ composer = <<>>
  /\ editorKind = "none"

\* "const prompt = `${action.prompt} ${selectionText}`"
BuildPrompt(actionPrompt, selectionText) == actionPrompt \o <<" ">> \o selectionText

\* "url: `${customGptUrl}?fresh=${Date.now()}`": the clearContext parameter is
\* not read
FreshUrl(customGptUrl, clearContext) == [base |-> customGptUrl, fresh |-> TRUE]

\* "chrome.tabs.create({ url: menu.customGptUrl, active: true })" of the catch
PlainUrl(customGptUrl) == [base |-> customGptUrl, fresh |-> FALSE]

\* executeAction up to the tab it injects into: the tab of openOrFocusGptTab,
\* or the tab of the catch block when openOrFocusGptTab rejected (openRejects)
ExecuteActionText(actionPrompt, selectionText, clearContext, openRejects) ==
  /\ dPc = "idle"
  /\ dAction' = actionPrompt
  /\ dSelection' = selectionText
  /\ dClear' = clearContext
  /\ dText' = BuildPrompt(actionPrompt, selectionText)
  /\ dUrl' = IF openRejects THEN PlainUrl(MenuUrl) ELSE FreshUrl(MenuUrl, clearContext)
  /\ dPath' = IF openRejects THEN "catch" ELSE "try"
  /\ dPc' = "opened"
  /\ UNCHANGED <<composer, editorKind>>
  /\ UNCHANGED <<now, pageVars, execVars, csVars, menuVars, runVars, waitVars, parseVars, dispVars, builtVars, restVars>>

\* The page of the tab renders its composer
ComposerRenders(kind, existing) ==
  /\ dPc = "opened"
  /\ editorKind' = kind
  /\ composer' = existing
  /\ dPc' = "rendered"
  /\ UNCHANGED <<dAction, dSelection, dClear, dText, dUrl, dPath>>
  /\ UNCHANGED <<now, pageVars, execVars, csVars, menuVars, runVars, waitVars, parseVars, dispVars, builtVars, restVars>>

\* insertIntoCE: the caret is put at the end of the content and
\* execCommand("insertText") inserts there; when it fails textContent is set
insertIntoCE(content, val, execOk) == IF execOk THEN content \o val ELSE val

\* insertIntoTA: the value setter replaces the content
insertIntoTA(content, val) == val

\* setValue(editor, text) on the visible editor pickEditor() returned
setValue(kind, content, val, execOk) ==
  IF kind = "CE" THEN insertIntoCE(content, val, execOk)
  ELSE insertIntoTA(content, val)

\* tryOnce of the injected function finds the editor and inserts
SetValue(execOk) ==
  /\ dPc = "rendered"
  /\ composer' = setValue(editorKind, composer, dText, execOk)
  /\ dPc' = "inserted"
  /\ UNCHANGED <<dAction, dSelection, dClear, dText, dUrl, dPath, editorKind>>
  /\ UNCHANGED <<now, pageVars, execVars, csVars, menuVars, runVars, waitVars, parseVars, dispVars, builtVars, restVars>>

NextData ==
  \/ \E actionPrompt \in ActionPrompts, selectionText \in Selections,
        clearContext, openRejects \in BOOLEAN :
       ExecuteActionText(actionPrompt, selectionText, clearContext, openRejects)
  \/ \E kind \in {"CE", "TA"}, existing \in Composers : ComposerRenders(kind, existing)
  \/ \E execOk \in BOOLEAN : SetValue(execOk)

-----------------------------------------------------------------------------
(* shortcuts.js: parseShortcut on the shortcut strings of a configuration  *)
(*                                                                         *)
(* A shortcut string is written from a description: its modifiers in some  *)
(* order, each by name or by symbol, joined by "+", then the key.          *)

MaxModifiers == 2

ModifierNames == {"Ctrl", "Alt", "Shift", "Meta"}

NameChars(name) ==
  CASE name = "Ctrl" -> Ctrl
    [] name = "Alt" -> Alt
    [] name = "Shift" -> Shift
    [] name = "Meta" -> Meta

SymbolOf(name) ==
  CASE name = "Ctrl" -> "u2303"
    [] name = "Alt" -> "u2325"
    [] name = "Shift" -> "u21E7"
    [] name = "Meta" -> "u2318"

ModifierTokens == [name : ModifierNames, sym : BOOLEAN]

\* sequences of at most MaxModifiers tokens of distinct modifiers
ModifierSeqs ==
  UNION {{q \in [1..n -> ModifierTokens] :
            \A i, j \in 1..n : i # j => q[i].name # q[j].name} : n \in 0..MaxModifiers}

OrdinaryKeys == {<<"S">>, <<"F", "1">>}
DescribedKeys == OrdinaryKeys \cup {<<"+">>, <<>>}

ShortcutDescriptions == [mods : ModifierSeqs, key : DescribedKeys]

TokenChars(tok) == IF tok.sym THEN <<SymbolOf(tok.name)>> ELSE NameChars(tok.name)

RECURSIVE JoinPlus(_)
JoinPlus(toks) ==
  IF toks = <<>> THEN <<>>
  ELSE IF Len(toks) = 1 THEN TokenChars(toks[1])
  ELSE TokenChars(toks[1]) \o <<"+">> \o JoinPlus(Tail(toks))

\* the shortcut string of a description
ShortcutString(d) ==
  IF d.mods = <<>> THEN d.key
  ELSE IF d.key = <<>> THEN JoinPlus(d.mods)
  ELSE JoinPlus(d.mods) \o <<"+">> \o d.key

ModifierSet(d) == {d.mods[i].name : i \in 1..Len(d.mods)}

InitParse == parsePair = Null

\* the descriptions of the shortcut d describes: the same key and the same
\* set of modifiers
SameShortcut(d) ==
  {e \in ShortcutDescriptions : ModifierSet(e) = ModifierSet(d) /\ e.key = d.key}

\* parseShortcut is called on the strings of two descriptions
ParsePair(d1, d2) ==
  /\ parsePair = Null
  /\ parsePair' = [d1 |-> d1, d2 |-> d2,
                   s1 |-> ShortcutString(d1), s2 |-> ShortcutString(d2),
                   r1 |-> parseShortcut(ShortcutString(d1)),
                   r2 |-> parseShortcut(ShortcutString(d2))]
  /\ UNCHANGED <<now, pageVars, execVars, csVars, menuVars, runVars, waitVars, dataVars, dispVars, builtVars, restVars>>

NextParse == \E d1 \in ShortcutDescriptions : \E d2 \in SameShortcut(d1) : ParsePair(d1, d2)

-----------------------------------------------------------------------------
(* background.js: what is built from a configuration                       *)
(*                                                                         *)
(* A configuration is [menus |-> a sequence of menus]; a menu is           *)
(* [id, runAllEnabled, runAllShortcut, order, actions]; an action is       *)
(* [id, enabled, shortcut, order]. An unset shortcut is "". The id of a    *)
(* context-menu entry is a tuple: <<menu.id>> for the entry of a menu,     *)
(* <<menu.id, action.id>> for `${menu.id}__${action.id}`.                  *)

MaxMenuActions == 2

ActionIdOf(i) == IF i = 1 THEN "a1" ELSE IF i = 2 THEN "a2" ELSE "a3"
MenuIdOf(i) == IF i = 1 THEN "m1" ELSE "m2"

\* the actions of a menu: any enabled flags, shortcuts and orders
ActionLists ==
  UNION {{[i \in 1..n |-> [id |-> ActionIdOf(i), enabled |-> q[i].enabled,
                           shortcut |-> q[i].shortcut, order |-> q[i].order]] :
            q \in [1..n -> [enabled : BOOLEAN, shortcut : {"", "Alt+T"},
                            order : 1..2]]} : n \in 0..MaxMenuActions}

MenusAt(i, orders) ==
  {[id |-> MenuIdOf(i), runAllEnabled |-> r, runAllShortcut |-> k, order |-> o,
    actions |-> acts] :
     r \in BOOLEAN, k \in {"", "Ctrl+Shift+A"}, o \in orders, acts \in ActionLists}

\* a second menu, for configurations of two menus
SecondMenus ==
  {m \in MenusAt(2, {1}) :
     /\ m.runAllEnabled
     /\ m.runAllShortcut = ""
     /\ Len(m.actions) = 2
     /\ \A i \in 1..2 : m.actions[i].order = i /\ m.actions[i].shortcut = ""
     /\ m.actions[1].enabled}

Configurations ==
  {[menus |-> <<m>>] : m \in MenusAt(1, {1})}
  \cup {[menus |-> <<m, n>>] : m \in MenusAt(1, {1, 2}), n \in SecondMenus}

\* ".filter(action => action.enabled).sort((a, b) => a.order - b.order)"
EnabledActions(menu) ==
  LET idx == SortByOrder(FilterEnabled(menu.actions), menu.actions)
  IN [i \in 1..Len(idx) |-> menu.actions[idx[i]]]

\* A faulty variant: disabled actions count too.
HasRunAllEntryAnyActions(menu) == menu.runAllEnabled /\ Len(menu.actions) > 1

\* "if (menu.runAllEnabled && enabledActions.length > 1)"
HasRunAllEntry(menu) == menu.runAllEnabled /\ Len(EnabledActions(menu)) > 1

\* the createMenuItem calls of rebuildContextMenus for one menu
MenuEntries(menu) ==
  LET enabledActions == EnabledActions(menu)
  IN <<[id |-> <<menu.id>>, parentId |-> "none"]>>
     \o [i \in 1..Len(enabledActions) |->
           [id |-> <<menu.id, enabledActions[i].id>>, parentId |-> menu.id]]
     \o (IF HasRunAllEntry(menu)
           THEN <<[id |-> <<menu.id, "runAll">>, parentId |-> menu.id]>>
           ELSE <<>>)

\* rebuildContextMenus, V3 branch: the entries created, in order
BuildTree(config) ==
  LET all == [i \in 1..Len(config.menus) |-> i]
      sortedMenus == SortByOrder(all, config.menus)
  IN Flatten([i \in 1..Len(sortedMenus) |-> MenuEntries(config.menus[sortedMenus[i]])])

\* A faulty variant: the shortcut is sent although Run All is switched off.
HasRunAllShortcutUnlessUnset(menu) == menu.runAllShortcut # ""

\* "if (menu.runAllEnabled && menu.runAllShortcut)"
HasRunAllShortcut(menu) == menu.runAllEnabled /\ menu.runAllShortcut # ""

\* buildShortcutMap for one menu
MenuShortcuts(menu) ==
  LET withShortcut == SelectSeq(menu.actions, LAMBDA a : a.enabled /\ a.shortcut # "")
  IN [i \in 1..Len(withShortcut) |->
        <<withShortcut[i].shortcut,
          [menuId |-> menu.id, actionId |-> withShortcut[i].id]>>]
     \o (IF HasRunAllShortcut(menu)
           THEN << <<menu.runAllShortcut, [menuId |-> menu.id, actionId |-> "runAll"]>> >>
           ELSE <<>>)

\* buildShortcutMap, V3 branch
buildShortcutMap(config) ==
  Flatten([i \in 1..Len(config.menus) |-> MenuShortcuts(config.menus[i])])

-----------------------------------------------------------------------------
(* background.js: clicks and shortcut requests against a changing          *)
(* configuration of one menu with two actions                              *)

MaxSaves == 2

DispatchConfigs ==
  {c \in Configurations :
     /\ Len(c.menus) = 1
     /\ ~c.menus[1].runAllEnabled
     /\ c.menus[1].runAllShortcut = ""
     /\ Len(c.menus[1].actions) = 2
     /\ \A i \in 1..2 : c.menus[1].actions[i].order = i
                        /\ c.menus[1].actions[i].shortcut # ""}

\* after onInstalled: both actions enabled, the menus built, no page loaded
InstalledConfig == CHOOSE c \in DispatchConfigs : \A i \in 1..2 : c.menus[1].actions[i].enabled

InitDispatch ==
  /\ dispConfig = InstalledConfig
  /\ dispTree = BuildTree(InstalledConfig)
  /\ dispMap = <<>>
  /\ dispSaves = 0
  /\ lastExec = Null

\* The options page saves a configuration
SaveConfig(config) ==
  /\ dispSaves < MaxSaves
  /\ config # dispConfig
  /\ dispConfig' = config
  /\ dispSaves' = dispSaves + 1
  /\ UNCHANGED <<dispTree, dispMap, lastExec>>
  /\ UNCHANGED <<now, pageVars, execVars, csVars, menuVars, runVars, waitVars, dataVars,
                 parseVars, builtVars, restVars>>

\* rebuildContextMenus completes on the stored configuration
TreeRebuilt ==
  /\ dispTree # BuildTree(dispConfig)
  /\ dispTree' = BuildTree(dispConfig)
  /\ UNCHANGED <<dispConfig, dispMap, dispSaves, lastExec>>
  /\ UNCHANGED <<now, pageVars, execVars, csVars, menuVars, runVars, waitVars, dataVars,
                 parseVars, builtVars, restVars>>

\* The page receives the shortcut map of the stored configuration, as the
\* response to GET_SHORTCUTS or as SHORTCUTS_UPDATED
MapDelivered ==
  /\ dispMap # buildShortcutMap(dispConfig)
  /\ dispMap' = buildShortcutMap(dispConfig)
  /\ UNCHANGED <<dispConfig, dispTree, dispSaves, lastExec>>
  /\ UNCHANGED <<now, pageVars, execVars, csVars, menuVars, runVars, waitVars, dataVars,
                 parseVars, builtVars, restVars>>

\* "config.menus.find(m => m.id === menuId)", 0 when there is none
FindMenu(config, menuId) ==
  LET hits == {i \in 1..Len(config.menus) : config.menus[i].id = menuId}
  IN IF hits = {} THEN 0 ELSE CHOOSE i \in hits : \A j \in hits : i <= j

\* "menu.actions.find(a => a.id === actionId)", 0 when there is none: the
\* enabled flag is not looked at
FindAction(menu, actionId) ==
  LET hits == {i \in 1..Len(menu.actions) : menu.actions[i].id = actionId}
  IN IF hits = {} THEN 0 ELSE CHOOSE i \in hits : \A j \in hits : i <= j

\* the menu and action of a request are resolved in the stored configuration
\* and executeAction is called
Dispatch(menuId, actionId, via) ==
  LET mi == FindMenu(dispConfig, menuId)
      ai == IF mi = 0 THEN 0 ELSE FindAction(dispConfig.menus[mi], actionId)
  IN lastExec' = IF mi = 0 \/ ai = 0
                   THEN [menu |-> menuId, action |-> actionId, enabled |-> FALSE,
                         via |-> via, executed |-> FALSE]
                   ELSE [menu |-> menuId, action |-> actionId,
                         enabled |-> dispConfig.menus[mi].actions[ai].enabled,
                         via |-> via, executed |-> TRUE]

\* contextMenus.onClicked for the entry of an action
MenuClick(e) ==
  /\ e \in 1..Len(dispTree)
  /\ dispTree[e].parentId # "none"
  /\ dispTree[e].id[2] # "runAll"
  /\ Dispatch(dispTree[e].id[1], dispTree[e].id[2], "click")
  /\ UNCHANGED <<dispConfig, dispTree, dispMap, dispSaves>>
  /\ UNCHANGED <<now, pageVars, execVars, csVars, menuVars, runVars, waitVars, dataVars,
                 parseVars, builtVars, restVars>>

\* EXECUTE_SHORTCUT from the page, for an entry of the list it holds:
\* handleShortcutExecution
ShortcutRequest(e) ==
  /\ e \in 1..Len(dispMap)
  /\ dispMap[e][2].actionId # "runAll"
  /\ Dispatch(dispMap[e][2].menuId, dispMap[e][2].actionId, "shortcut")
  /\ UNCHANGED <<dispConfig, dispTree, dispMap, dispSaves>>
  /\ UNCHANGED <<now, pageVars, execVars, csVars, menuVars, runVars, waitVars, dataVars,
                 parseVars, builtVars, restVars>>

NextDispatch ==
  \/ \E config \in DispatchConfigs : SaveConfig(config)
  \/ TreeRebuilt
  \/ MapDelivered
  \/ \E e \in 1..3 : MenuClick(e)
  \/ \E e \in 1..2 : ShortcutRequest(e)

-----------------------------------------------------------------------------
(* background.js: the builders applied to one configuration                *)

InitBuilt == built = Null

\* A completed rebuildContextMenus and buildShortcutMap on one configuration
Build(config) ==
  /\ built = Null
  /\ built' = [config |-> config, tree |-> BuildTree(config),
               map |-> buildShortcutMap(config)]
  /\ UNCHANGED <<now, pageVars, execVars, csVars, menuVars, runVars, waitVars, dataVars,
                 parseVars, dispVars, restVars>>

NextBuilt == \E config \in Configurations : Build(config)

-----------------------------------------------------------------------------
(* options page: the shortcut conflict check of handleSave                  *)
(*                                                                         *)
(* The form shows one menu with two action rows and the Run All row. Each  *)
(* shortcut field holds the display form of a stored or captured shortcut: *)
(* its modifiers in the stored order, by name or by symbol.                *)

normalizeShortcutString(shortcut) ==
  IF shortcut = <<>> THEN <<>> ELSE ReplaceSymbols(shortcut)

extractRawShortcut(displayValue) == normalizeShortcutString(displayValue)

\* the uses of shortcuts in a configuration: Run All of a menu where it is
\* enabled and set, and every action with a shortcut
ShortcutLocations(config) ==
  UNION {(IF config.menus[m].runAllEnabled /\ config.menus[m].runAllShortcut # <<>>
            THEN {[shortcut |-> config.menus[m].runAllShortcut,
                   menuId |-> config.menus[m].id, actionId |-> "null", isRunAll |-> TRUE]}
            ELSE {})
         \cup {[shortcut |-> config.menus[m].actions[a].shortcut,
                menuId |-> config.menus[m].id,
                actionId |-> config.menus[m].actions[a].id, isRunAll |-> FALSE] :
                 a \in {b \in 1..Len(config.menus[m].actions) :
                          config.menus[m].actions[b].shortcut # <<>>}} :
         m \in 1..Len(config.menus)}

\* the shortcuts that are the key of more than one use, each with its uses
checkAllShortcutConflicts(config) ==
  LET locs == ShortcutLocations(config)
      At(sc) == {l \in locs : l.shortcut = sc}
  IN {[shortcut |-> sc, locations |-> At(sc)] :
        sc \in {l.shortcut : l \in {k \in locs : Cardinality(At(k.shortcut)) > 1}}}

\* the menu handleSave collects from the form
CollectedMenu(runAllEnabled, runAllValue, value1, value2) ==
  [id |-> "menu_1", runAllEnabled |-> runAllEnabled,
   runAllShortcut |-> extractRawShortcut(runAllValue),
   actions |-> <<[id |-> "action_1", shortcut |-> extractRawShortcut(value1), order |-> 1],
                 [id |-> "action_2", shortcut |-> extractRawShortcut(value2), order |-> 2]>>]

InitConflict == saveCheck = Null

\* handleSave up to its conflict check: with a conflict it returns before
\* validation and saving
handleSave(d1, d2, runAllEnabled, runAllValue) ==
  /\ saveCheck = Null
  /\ LET config == [menus |-> <<CollectedMenu(runAllEnabled, runAllValue,
                                              ShortcutString(d1), ShortcutString(d2))>>]
         conflicts == checkAllShortcutConflicts(config)
     IN saveCheck' = [d1 |-> d1, d2 |-> d2, config |-> config, conflicts |-> conflicts,
                      passed |-> (conflicts = {})]
  /\ UNCHANGED <<now, pageVars, execVars, csVars, menuVars, runVars, waitVars, dataVars,
                 parseVars, dispVars, builtVars, pickVars, compatVars, optVars>>

\* the second field holds another form of the first shortcut or another
\* shortcut; the Run All field is empty or repeats the first field
NextConflict ==
  /\ saveCheck = Null
  /\ \E d1 \in ShortcutDescriptions :
       \E d2 \in SameShortcut(d1) \cup {[mods |-> <<>>, key |-> <<>>],
                                        [mods |-> <<[name |-> "Ctrl", sym |-> FALSE]>>,
                                         key |-> <<"F", "1">>]} :
         \E runAllEnabled \in BOOLEAN : \E runAllValue \in {<<>>, ShortcutString(d1)} :
           handleSave(d1, d2, runAllEnabled, runAllValue)

-----------------------------------------------------------------------------
(* background.js: pickEditor and setValue of the injected function          *)
(*                                                                         *)
(* A document is the sequence of its editable elements in document order.  *)
(* An element is a contenteditable div marked as composer or as textbox,   *)
(* another contenteditable, or a textarea; it is inside a form of its tree *)
(* or not, and in the light tree or in the tree of a shadow root.          *)

MaxElements == 2

ElementKinds == {"composer", "textbox", "ce", "textarea"}

Elements == [kind : ElementKinds, inForm : BOOLEAN, inShadow : BOOLEAN,
             display : {"block", "none"}, ariaHidden : BOOLEAN]

Documents == UNION {[1..n -> Elements] : n \in 0..MaxElements}

IsCE(el) == el.kind \in {"composer", "textbox", "ce"}

\* SELECTORS_ORDERED[sel - 1] matches el
Matches(sel, el) ==
  CASE sel = 1 -> el.inForm /\ el.kind = "composer"
    [] sel = 2 -> el.inForm /\ el.kind = "textbox"
    [] sel = 3 -> el.kind = "composer"
    [] sel = 4 -> el.kind = "textbox"
    [] sel = 5 -> el.inForm /\ IsCE(el)
    [] sel = 6 -> IsCE(el)
    [] sel = 7 -> el.inForm /\ el.kind = "textarea"
    [] sel = 8 -> el.kind = "textarea"

NumSelectors == 8

\* isVisible(el): display is not none and no ancestor is aria-hidden
isVisible(el) == el.display # "none" /\ ~el.ariaHidden

Positions(dom) == [i \in 1..Len(dom) |-> i]

\* queryDeepAll(document, sel): the matches of the light tree in document
\* order, then those of the shadow tree
queryDeepAll(dom, sel) ==
  SelectSeq(Positions(dom), LAMBDA i : ~dom[i].inShadow /\ Matches(sel, dom[i]))
  \o SelectSeq(Positions(dom), LAMBDA i : dom[i].inShadow /\ Matches(sel, dom[i]))

\* A faulty variant of the filter: every match is kept.
VisibleOfAll(dom, els) == els

\* "els.filter(isVisible)"
VisibleOf(dom, els) == SelectSeq(els, LAMBDA i : isVisible(dom[i]))

\* nearestVisibleCE(fromEl): the first visible contenteditable of the form
\* around fromEl, or of the light tree when fromEl is in no form; 0 for null
nearestVisibleCE(dom, from) ==
  LET pool == IF dom[from].inForm
                THEN SelectSeq(Positions(dom),
                               LAMBDA i : /\ IsCE(dom[i]) /\ dom[i].inForm
                                          /\ dom[i].inShadow = dom[from].inShadow)
                ELSE SelectSeq(Positions(dom), LAMBDA i : IsCE(dom[i]) /\ ~dom[i].inShadow)
      vis == SelectSeq(pool, LAMBDA i : isVisible(dom[i]))
  IN IF vis = <<>> THEN 0 ELSE vis[1]

\* the loop of pickEditor from selector sel on; 0 for null
RECURSIVE PickFrom(_, _)
PickFrom(dom, sel) ==
  IF sel > NumSelectors THEN 0
  ELSE LET els == queryDeepAll(dom, sel)
           vis == VisibleOf(dom, els)
       IN IF vis # <<>> THEN vis[1]
          ELSE IF els # <<>> /\ dom[els[1]].kind = "textarea"
                             /\ nearestVisibleCE(dom, els[1]) # 0
                 THEN nearestVisibleCE(dom, els[1])
                 ELSE PickFrom(dom, sel + 1)

pickEditor(dom) == PickFrom(dom, 1)

\* setValue(el, val): the element the text is written into; 0 when none
setValueTarget(dom, el) ==
  IF el = 0 THEN 0
  ELSE IF IsCE(dom[el]) THEN el
  ELSE IF ~isVisible(dom[el]) /\ nearestVisibleCE(dom, el) # 0
         THEN nearestVisibleCE(dom, el)
         ELSE el

InitPick == picked = Null

\* tryOnce() in the document dom
tryOnce(dom) ==
  /\ picked = Null
  /\ picked' = [dom |-> dom, editor |-> pickEditor(dom),
                written |-> setValueTarget(dom, pickEditor(dom))]
  /\ UNCHANGED <<now, pageVars, execVars, csVars, menuVars, runVars, waitVars, dataVars,
                 parseVars, dispVars, builtVars, conflictVars, compatVars, optVars>>

NextPick == picked = Null /\ \E dom \in Documents : tryOnce(dom)

-----------------------------------------------------------------------------
(* background.js: the legacy (V2) and the current (V3) configuration shape  *)
(*                                                                         *)
(* The same settings are written as a legacy configuration, with actions   *)
(* and globalSettings at the top, and as a current configuration with one  *)
(* menu. What a handler does for a request is the sequence of its calls:   *)
(* chrome.tabs.create, waitForTitleMatch, tryInjectWithTiming.             *)

\* a setting that is not there
Undefined == "undefined"

GptUrl == "https://chatgpt.com/g/x"

TitleSettings == {Undefined, "", "My GPT"}

Settings ==
  [autoSubmit : BOOLEAN, runAllEnabled : BOOLEAN, runAllShortcut : {"", "Ctrl+Shift+A"},
   actions : ActionLists, gptTitleMatch : TitleSettings]

LegacyOf(st) ==
  [actions |-> st.actions,
   globalSettings |-> [customGptUrl |-> GptUrl, autoSubmit |-> st.autoSubmit,
                       runAllEnabled |-> st.runAllEnabled,
                       runAllShortcut |-> st.runAllShortcut,
                       gptTitleMatch |-> st.gptTitleMatch]]

CurrentOf(st) ==
  [menus |-> <<[id |-> MenuIdOf(1), order |-> 1, customGptUrl |-> GptUrl,
                autoSubmit |-> st.autoSubmit, runAllEnabled |-> st.runAllEnabled,
                runAllShortcut |-> st.runAllShortcut, actions |-> st.actions]>>,
   globalSettings |-> [gptTitleMatch |-> st.gptTitleMatch]]

\* "value || fallback"
OrElse(value, fallback) == IF value \in {Undefined, ""} THEN fallback ELSE value

\* rebuildContextMenus, V2 branch: the entries created, in order
BuildTreeV2(config) ==
  LET enabledActions == EnabledActions(config)
  IN <<[id |-> <<"jobSearchRoot">>, parentId |-> "none"]>>
     \o [i \in 1..Len(enabledActions) |->
           [id |-> <<enabledActions[i].id>>, parentId |-> "jobSearchRoot"]]
     \o (IF config.globalSettings.runAllEnabled /\ Len(enabledActions) > 1
           THEN <<[id |-> <<"runAll">>, parentId |-> "jobSearchRoot"]>>
           ELSE <<>>)

\* buildShortcutMap, V2 branch
buildShortcutMapV2(config) ==
  LET withShortcut == SelectSeq(config.actions, LAMBDA a : a.enabled /\ a.shortcut # "")
  IN [i \in 1..Len(withShortcut) |-> <<withShortcut[i].shortcut, withShortcut[i].id>>]
     \o (IF config.globalSettings.runAllEnabled /\ config.globalSettings.runAllShortcut # ""
           THEN << <<config.globalSettings.runAllShortcut, "runAll">> >>
           ELSE <<>>)

CreateCall(fresh, active) ==
  [op |-> "create", url |-> GptUrl, fresh |-> fresh, active |-> active,
   title |-> "", throws |-> FALSE, label |-> "", autoSubmit |-> FALSE]

\* waitForTitleMatch(tabId, titleSubstring): titleSubstring.toLowerCase()
\* throws on undefined and the promise rejects
WaitCall(titleSubstring) ==
  [op |-> "wait", url |-> "", fresh |-> FALSE, active |-> FALSE,
   title |-> titleSubstring, throws |-> (titleSubstring = Undefined),
   label |-> "", autoSubmit |-> FALSE]

AttemptCall(label, autoSubmit) ==
  [op |-> "attempt", url |-> "", fresh |-> FALSE, active |-> FALSE,
   title |-> "", throws |-> FALSE, label |-> label, autoSubmit |-> autoSubmit]

\* the try and catch blocks of executeAction and executeActionV2, given the
\* title openOrFocusGptTab or openOrFocusGptTabV2 waits for
SingleCalls(actionId, titleSubstring, autoSubmit) ==
  <<CreateCall(TRUE, TRUE), WaitCall(titleSubstring)>>
  \o (IF WaitCall(titleSubstring).throws
        THEN <<CreateCall(FALSE, TRUE), AttemptCall(<<actionId, "fallback">>, autoSubmit)>>
        ELSE <<AttemptCall(<<actionId, "attempt#1">>, autoSubmit)>>)

\* executeAction with openOrFocusGptTab
executeActionCalls(action, menu, config) ==
  SingleCalls(action.id, OrElse(config.globalSettings.gptTitleMatch, "ChatGPT"),
              menu.autoSubmit)

\* executeActionV2 with openOrFocusGptTabV2
executeActionV2Calls(action, config) ==
  SingleCalls(action.id, OrElse(config.globalSettings.gptTitleMatch, "ChatGPT"),
              config.globalSettings.autoSubmit)

\* the tabs created and waited for in order, then attempt #1 in every tab
\* whose wait did not reject
RunAllCalls(enabledActions, titleSubstring, autoSubmit) ==
  [i \in 1..Len(enabledActions) |-> CreateCall(FALSE, FALSE)]
  \o [i \in 1..Len(enabledActions) |-> WaitCall(titleSubstring)]
  \o (IF WaitCall(titleSubstring).throws THEN <<>>
      ELSE [i \in 1..Len(enabledActions) |->
              AttemptCall(<<"runAll", enabledActions[i].id, "attempt#1">>, autoSubmit)])

\* runAllActions: the title is config.globalSettings.gptTitleMatch as it is
runAllActionsCalls(menu, config) ==
  RunAllCalls(EnabledActions(menu), config.globalSettings.gptTitleMatch, menu.autoSubmit)

\* runAllActionsV2: the title is config.globalSettings?.gptTitleMatch || 'ChatGPT'
runAllActionsV2Calls(config) ==
  RunAllCalls(EnabledActions(config), OrElse(config.globalSettings.gptTitleMatch, "ChatGPT"),
              config.globalSettings.autoSubmit)

\* the V3 branch of onClicked and handleShortcutExecution
RequestCalls(config, menuId, actionId) ==
  LET mi == FindMenu(config, menuId)
  IN IF mi = 0 THEN <<>>
     ELSE IF actionId = "runAll" THEN runAllActionsCalls(config.menus[mi], config)
     ELSE IF FindAction(config.menus[mi], actionId) = 0 THEN <<>>
     ELSE executeActionCalls(config.menus[mi].actions[FindAction(config.menus[mi], actionId)],
                             config.menus[mi], config)

\* the V2 branch of onClicked and handleShortcutExecution
RequestCallsV2(config, actionId) ==
  IF actionId = "runAll" THEN runAllActionsV2Calls(config)
  ELSE IF FindAction(config, actionId) = 0 THEN <<>>
  ELSE executeActionV2Calls(config.actions[FindAction(config, actionId)], config)

RequestRefs == {ActionIdOf(i) : i \in 1..MaxMenuActions} \cup {"runAll"}

InitCompat == compat = Null

\* The same request for the action or the Run All entry ref, under both
\* shapes of the settings st
HandleBoth(st, ref) ==
  /\ compat = Null
  /\ compat' = [settings |-> st, ref |-> ref,
                treeV2 |-> BuildTreeV2(LegacyOf(st)),
                treeV3 |-> BuildTree(CurrentOf(st)),
                mapV2 |-> buildShortcutMapV2(LegacyOf(st)),
                mapV3 |-> buildShortcutMap(CurrentOf(st)),
                callsV2 |-> RequestCallsV2(LegacyOf(st), ref),
                callsV3 |-> RequestCalls(CurrentOf(st), MenuIdOf(1), ref)]
  /\ UNCHANGED <<now, pageVars, execVars, csVars, menuVars, runVars, waitVars, dataVars,
                 parseVars, dispVars, builtVars, conflictVars, pickVars, optVars>>

NextCompat == compat = Null /\ \E st \in Settings, ref \in RequestRefs : HandleBoth(st, ref)

-----------------------------------------------------------------------------
(* options page: menus, the form and the tracking of unsaved changes        *)
(*                                                                         *)
(* The content of a menu is reduced to its name, which is typed, and one   *)
(* shortcut, which is captured. Confirmation dialogs are confirmed and the *)
(* validations of handleSave pass; a cancelled dialog or a failed          *)
(* validation changes nothing.                                             *)

MaxAdds == 1

StoredMenuIds == {"m1"}
AddedMenuId(n) == IF n = 1 THEN "m2" ELSE IF n = 2 THEN "m3" ELSE "m4"
AllMenuIds == StoredMenuIds \cup {AddedMenuId(n) : n \in 1..MaxAdds}

Contents == [name : 0..1, shortcut : 0..1]

\* what the menu of handleAddMenu holds, and a menu as installed
NewMenuContent == [name |-> 0, shortcut |-> 0]

NoFormState == [has |-> FALSE, shape |-> "form", content |-> NewMenuContent]

\* captureFormState() on a form holding content
captureFormState(content) == [has |-> TRUE, shape |-> "form", content |-> content]

\* the object handleRevertAll stores for a menu that is not selected: it
\* has name where a captured state has menuName, and no menuId
ConfigShapedState(content) == [has |-> TRUE, shape |-> "config", content |-> content]

\* compareFormStates(state1, state2): true when they differ
compareFormStates(state1, state2) ==
  \/ ~state1.has
  \/ state1.shape # state2.shape
  \/ state1.content # state2.content

Existing == {opMenus[i] : i \in 1..Len(opMenus)}

\* after loadAndRender on a stored configuration of one menu: the menu is
\* selected and its state captured
InitOptions ==
  /\ opMenus = <<"m1">>
  /\ opConfig = [m \in AllMenuIds |-> NewMenuContent]
  /\ opStoredMenus = StoredMenuIds
  /\ opStored = [m \in AllMenuIds |-> NewMenuContent]
  /\ selectedMenuId = "m1"
  /\ opForm = NewMenuContent
  /\ savedFormStates = [m \in AllMenuIds |->
                          IF m = "m1" THEN captureFormState(NewMenuContent) ELSE NoFormState]
  /\ dirtyMenus = {}
  /\ revertShown = FALSE
  /\ revertAllShown = FALSE
  /\ opAdded = 0

OptionsFrame ==
  UNCHANGED <<now, pageVars, execVars, csVars, menuVars, runVars, waitVars, dataVars,
              parseVars, dispVars, builtVars, conflictVars, pickVars, compatVars>>

\* updateRevertButtons() with the selection and the dirty set given
updateRevertButtons(selected, dirty) ==
  /\ revertShown' = (selected # "none" /\ selected \in dirty)
  /\ revertAllShown' = (Cardinality(dirty) > 1)

\* checkForChanges() on the form holding content
checkForChanges(content) ==
  LET hasChanges == compareFormStates(savedFormStates[selectedMenuId],
                                      captureFormState(content))
      wasDirty == selectedMenuId \in dirtyMenus
  IN IF hasChanges /\ ~wasDirty
       THEN /\ dirtyMenus' = dirtyMenus \cup {selectedMenuId}
            /\ updateRevertButtons(selectedMenuId, dirtyMenus \cup {selectedMenuId})
       ELSE IF ~hasChanges /\ wasDirty
         THEN /\ dirtyMenus' = dirtyMenus \ {selectedMenuId}
              /\ updateRevertButtons(selectedMenuId, dirtyMenus \ {selectedMenuId})
         ELSE UNCHANGED <<dirtyMenus, revertShown, revertAllShown>>

\* The user types in the name field: the input listener runs checkForChanges
EditName(v) ==
  /\ selectedMenuId # "none"
  /\ v # opForm.name
  /\ opForm' = [opForm EXCEPT !.name = v]
  /\ checkForChanges([opForm EXCEPT !.name = v])
  /\ UNCHANGED <<opMenus, opConfig, opStoredMenus, opStored, selectedMenuId,
                 savedFormStates, opAdded>>
  /\ OptionsFrame

\* captureShortcut: the captured shortcut is put into the field by
\* updateShortcutDisplay; no listener runs checkForChanges
captureShortcut(v) ==
  /\ selectedMenuId # "none"
  /\ v # opForm.shortcut
  /\ opForm' = [opForm EXCEPT !.shortcut = v]
  /\ UNCHANGED <<opMenus, opConfig, opStoredMenus, opStored, selectedMenuId,
                 savedFormStates, dirtyMenus, revertShown, revertAllShown, opAdded>>
  /\ OptionsFrame

\* selectMenu(menuId) on the configuration config, from the selection from:
\* syncFormToConfig for another menu, loadMenuDetails, updateRevertButtons
SelectIn(menuId, from, config, states, dirty) ==
  LET synced == IF from # "none" /\ from # menuId
                  THEN [config EXCEPT ![from] = opForm] ELSE config
  IN /\ opConfig' = synced
     /\ selectedMenuId' = menuId
     /\ opForm' = synced[menuId]
     /\ savedFormStates' = IF states[menuId].has THEN states
                           ELSE [states EXCEPT ![menuId] = captureFormState(synced[menuId])]
     /\ updateRevertButtons(menuId, dirty)

\* A click on an entry of the menu list
selectMenu(menuId) ==
  /\ menuId \in Existing
  /\ SelectIn(menuId, selectedMenuId, opConfig, savedFormStates, dirtyMenus)
  /\ UNCHANGED <<opMenus, opStoredMenus, opStored, dirtyMenus, opAdded>>
  /\ OptionsFrame

\* handleAddMenu: the new menu is put into currentConfig and selected
handleAddMenu ==
  /\ opAdded < MaxAdds
  /\ Len(opMenus) < 10
  /\ LET menuId == AddedMenuId(opAdded + 1)
     IN /\ opMenus' = Append(opMenus, menuId)
        /\ SelectIn(menuId, selectedMenuId, [opConfig EXCEPT ![menuId] = NewMenuContent],
                    savedFormStates, dirtyMenus)
  /\ opAdded' = opAdded + 1
  /\ UNCHANGED <<opStoredMenus, opStored, dirtyMenus>>
  /\ OptionsFrame

\* handleDeleteMenu: the selected menu is removed, the first of the rest is
\* selected, currentConfig is saved and selectMenu runs
handleDeleteMenu ==
  /\ selectedMenuId # "none"
  /\ LET rest == SelectSeq(opMenus, LAMBDA m : m # selectedMenuId)
         config == [opConfig EXCEPT ![selectedMenuId] = NewMenuContent]
     IN /\ opMenus' = rest
        /\ opStoredMenus' = {rest[i] : i \in 1..Len(rest)}
        /\ opStored' = config
        /\ IF rest # <<>>
             THEN SelectIn(rest[1], rest[1], config, savedFormStates, dirtyMenus)
             ELSE /\ opConfig' = config
                  /\ selectedMenuId' = "none"
                  /\ UNCHANGED <<opForm, savedFormStates, revertShown, revertAllShown>>
  /\ UNCHANGED <<dirtyMenus, opAdded>>
  /\ OptionsFrame

\* handleSave: the form goes into currentConfig, which is saved whole; the
\* tracking starts again from the form
handleSaveMenu ==
  /\ selectedMenuId # "none"
  /\ opConfig' = [opConfig EXCEPT ![selectedMenuId] = opForm]
  /\ opStoredMenus' = Existing
  /\ opStored' = [opConfig EXCEPT ![selectedMenuId] = opForm]
  /\ savedFormStates' = [m \in AllMenuIds |->
                           IF m = selectedMenuId THEN captureFormState(opForm)
                           ELSE NoFormState]
  /\ dirtyMenus' = {}
  /\ updateRevertButtons(selectedMenuId, {})
  /\ UNCHANGED <<opMenus, selectedMenuId, opForm, opAdded>>
  /\ OptionsFrame

\* handleRevertCurrent, by a click on the visible button: the menu is taken
\* from storage again
handleRevertCurrent ==
  /\ revertShown
  /\ selectedMenuId # "none"
  /\ selectedMenuId \in dirtyMenus
  /\ selectedMenuId \in opStoredMenus
  /\ opConfig' = [opConfig EXCEPT ![selectedMenuId] = opStored[selectedMenuId]]
  /\ dirtyMenus' = dirtyMenus \ {selectedMenuId}
  /\ opForm' = opStored[selectedMenuId]
  /\ savedFormStates' = [savedFormStates EXCEPT
                           ![selectedMenuId] = captureFormState(opStored[selectedMenuId])]
  /\ updateRevertButtons(selectedMenuId, dirtyMenus \ {selectedMenuId})
  /\ UNCHANGED <<opMenus, opStoredMenus, opStored, selectedMenuId, opAdded>>
  /\ OptionsFrame

\* handleRevertAll, by a click on the visible button
handleRevertAll ==
  /\ revertAllShown
  /\ dirtyMenus # {}
  /\ LET config == [m \in AllMenuIds |->
                      IF m \in dirtyMenus /\ m \in opStoredMenus /\ m \in Existing
                        THEN opStored[m] ELSE opConfig[m]]
     IN /\ opConfig' = config
        /\ opForm' = IF selectedMenuId # "none" THEN config[selectedMenuId] ELSE opForm
        /\ savedFormStates' =
             [m \in AllMenuIds |->
                IF m = selectedMenuId THEN captureFormState(config[m])
                ELSE IF savedFormStates[m].has /\ m \in Existing
                  THEN ConfigShapedState(config[m])
                  ELSE savedFormStates[m]]
  /\ dirtyMenus' = {}
  /\ updateRevertButtons(selectedMenuId, {})
  /\ UNCHANGED <<opMenus, opStoredMenus, opStored, selectedMenuId, opAdded>>
  /\ OptionsFrame

NextOptions ==
  \/ \E v \in 0..1 : EditName(v)
  \/ \E v \in 0..1 : captureShortcut(v)
  \/ \E menuId \in AllMenuIds : selectMenu(menuId)
  \/ handleAddMenu
  \/ handleDeleteMenu
  \/ handleSaveMenu
  \/ handleRevertCurrent
  \/ handleRevertAll

-----------------------------------------------------------------------------
(* Time *)

\* 200 ms pass, up to the time limit; a timer that is due fires first
TickTo(limit) ==
  /\ now < limit
  /\ PagePending \/ BgPending
  /\ ~PageDue
  /\ ~BgDue
  /\ now' = now + INTERVAL
  /\ UNCHANGED <<pageVars, execVars, csVars, menuVars, runVars, waitVars, dataVars, parseVars, dispVars, builtVars, restVars>>

Tick == TickTo(MaxTime)

PageTick == TickTo(PageMaxTime)

\* nothing is pending in the page and the sender waits
IdleWait ==
  /\ now + IdleTicks * INTERVAL <= PageMaxTime
  /\ ~PagePending
  /\ now' = now + IdleTicks * INTERVAL
  /\ UNCHANGED <<pageVars, execVars, csVars, menuVars, runVars, waitVars, dataVars, parseVars, dispVars, builtVars, restVars>>

-----------------------------------------------------------------------------
(* Specifications *)

Init ==
  InitCS /\ InitMenu /\ InitPage /\ InitExec /\ InitRunAll /\ InitWait /\ InitData /\ InitParse
  /\ InitDispatch /\ InitBuilt /\ InitConflict /\ InitPick /\ InitCompat /\ InitOptions
  /\ now = 0

\* the page plays no part: its composer is simply there
InitNoPage == Init /\ editorVisible

\* the content script of one page
SpecCS == InitNoPage /\ [][NextCS]_vars

\* the configuration cache and the context menus of the service worker
SpecMenu == InitNoPage /\ [][NextMenu]_vars

\* one context-menu click while the configuration changes
NextClick ==
  \/ StorageSet
  \/ InstallStart
  \/ \E p \in Procs : HandlerStart(p)
  \/ \E p \in Procs : RemoveAllDone(p)
  \/ \E p \in Procs : DelayDone(p)
  \/ \E p \in Procs : GetConfigRead(p)
  \/ \E p \in Procs : GetConfigResolve(p)
  \/ \E p \in Procs : TabsQueryDone(p)
  \/ ClickStart
  \/ ClickTabCreated

SpecClick == InitNoPage /\ [][NextClick]_vars

\* one readiness wait on one tab
SpecWait == InitNoPage /\ [][NextWait]_vars

\* one Run All request
SpecRunAll == InitNoPage /\ [][NextRunAll]_vars

\* one page receiving deliveries of the injected function
NextPage ==
  \/ \E requestId \in ReqIds : Deliver(requestId, FALSE)
  \/ \E i \in Runs : Poll(i)
  \/ \E i \in Runs : AlertDismiss(i)
  \/ EditorAppears
  \/ PageTick
  \/ IdleWait

SpecPage == Init /\ [][NextPage]_vars

\* one single-action request and the page of its tab
NextExec ==
  \/ \E entry \in Entries, autoSubmit, createThrows, fallbackThrows \in BOOLEAN :
       ExecuteAction(entry, autoSubmit, createThrows, fallbackThrows)
  \/ \E outcome \in {"ready", "timeout", "closed"}, scriptThrows, fallbackThrows \in BOOLEAN :
       OpenDone(outcome, scriptThrows, fallbackThrows)
  \/ AttemptReturns
  \/ \E scriptThrows \in BOOLEAN : RetryFires(scriptThrows)
  \/ \E scriptThrows \in BOOLEAN : FallbackFires(scriptThrows)
  \/ \E i \in Runs : Poll(i)
  \/ \E i \in Runs : AlertDismiss(i)
  \/ \E i \in Runs, btnFound, disabled, enterThrows, hasRequestSubmit \in BOOLEAN :
       SubmitStart(i, btnFound, disabled, enterThrows, hasRequestSubmit)
  \/ \E i \in Runs, disabled, enterThrows, hasRequestSubmit \in BOOLEAN :
       SubmitPoll(i, disabled, enterThrows, hasRequestSubmit)
  \/ EditorAppears
  \/ Tick

SpecExec == Init /\ [][NextExec]_vars

\* the same, where promises settle and timers fire: openOrFocusGptTab
\* resolves or rejects (waitForTitleMatch has a timeout), time passes, and
\* a setTimeout callback that is due runs
SpecExecLive ==
  /\ SpecExec
  /\ WF_vars(\E outcome \in {"ready", "timeout", "closed"}, scriptThrows, fallbackThrows \in BOOLEAN :
               OpenDone(outcome, scriptThrows, fallbackThrows))
  /\ WF_vars(\E scriptThrows \in BOOLEAN : FallbackFires(scriptThrows))
  /\ WF_vars(Tick)

\* the text path of one single-action request
SpecData == InitNoPage /\ [][NextData]_vars

\* clicks and shortcut requests while the configuration changes
SpecDispatch == InitNoPage /\ [][NextDispatch]_vars

\* the menu tree and the shortcut map of one configuration
SpecBuilt == InitNoPage /\ [][NextBuilt]_vars

\* parseShortcut on two strings of one shortcut
SpecParse == InitNoPage /\ [][NextParse]_vars

\* one tryOnce of the injected function
SpecPick == InitNoPage /\ [][NextPick]_vars

\* one request under both configuration shapes
SpecCompat == InitNoPage /\ [][NextCompat]_vars

\* the options page
SpecOptions == InitNoPage /\ [][NextOptions]_vars

\* one save of the options page
SpecConflict == InitNoPage /\ [][NextConflict]_vars

-----------------------------------------------------------------------------
(* Claims about the content script (SpecCS) *)

\* C1, as stated: on every path through initialization the keydown listener
\* is attached only once the shortcut list has been received and stored.
C1_ListenerOnlyWhenReady == listenerAttached => shortcutsReady

\* C1, amended: the listener is attached only once the shortcut list has been
\* received and stored, except on the fallback path, where sending
\* GET_SHORTCUTS threw and the catch block registered the listener; while the
\* request is outstanding the listener is not attached.
C1_ListenerAfterReadyOrFallback ==
  /\ listenerAttached => (shortcutsReady \/ csPc = "fallback")
  /\ csPc \in {"start", "awaiting"} => ~listenerAttached

\* the response was stored with a usable shortcut, then the listener attached
C1_Witness ==
  csPc = "done" /\ listenerAttached /\ shortcutsReady /\ Len(shortcuts) > 0

-----------------------------------------------------------------------------
(* Claims about the configuration cache and the context menus (SpecMenu) *)

\* process p is inside the body of rebuildContextMenus
InRebuild(p) == proc[p].pc \in {"removeAll", "delay", "rebuildLoad"}

\* C8: at most one rebuild is in progress at any time, the flag is set exactly
\* while one is, and a call that was dropped is never inside the rebuild body:
\* only the calls that passed the flag have issued removeAll.
C8_OneRebuildAtATime ==
  /\ Cardinality({p \in Procs : InRebuild(p)}) <= 1
  /\ isRebuildingMenus <=> \E p \in Procs : InRebuild(p)
  /\ \A p \in Procs : proc[p].outcome = "dropped" => ~InRebuild(p)
  /\ rebuildRuns = Cardinality({p \in Procs : proc[p].outcome = "ran"})

\* a second call was dropped while the first is between removeAll and create
C8_Witness ==
  \E p, q \in Procs : p # q /\ proc[p].outcome = "dropped" /\ InRebuild(q)

\* every change handler and every rebuild has finished, no loadConfig is in flight
Quiescent ==
  /\ proc[InstallProc].pc = "done"
  /\ \A h \in Handlers : proc[h].pc = (IF h < storageCfg THEN "done" ELSE "idle")
  /\ \A l \in Loaders : proc[l].pc \in {"idle", "done"}

\* C9: once every storage-change handler and rebuild has finished, the menu
\* tree is the one of the configuration in storage.
C9_TreeFreshWhenQuiescent == Quiescent => menuTree = storageCfg

\* C10: a loadConfig call made after the cache was invalidated for a change
\* returns that change's configuration or a newer one.
C10_NoStaleLoad ==
  \A l \in Loaders : proc[l].pc = "done" => proc[l].ret >= proc[l].floor

-----------------------------------------------------------------------------
(* Claims about the deliveries to one page (SpecPage) *)

\* C2: a delivery is skipped exactly when the same request id was already
\* delivered to the page less than 10 seconds earlier.
C2_SkippedIffSameIdWithin10s ==
  \A k \in 1..Len(deliveries) :
    deliveries[k].skipped <=>
      \E j \in 1..(k - 1) : /\ deliveries[j].id = deliveries[k].id
                            /\ deliveries[k].at - deliveries[j].at < DEBOUNCE_MS

\* C20: a run that is not skipped ends in one of two ways: the text is
\* inserted at some try, with no alert for that run, or after 40 polls, 200 ms
\* apart, the manual-paste alert is shown once and the run resolves with
\* inserted, submitted and skipped all false. No run polls more than 40 times.
C20_InsertsOrGivesUpAfter40Polls ==
  /\ \A k \in 1..Len(deliveries) :
       /\ inst[k].pc \in {"polling", "alert", "done"}
       /\ inst[k].pc = "polling" =>
            /\ inst[k].tries < MAX_TRIES
            /\ inst[k].nextPoll = deliveries[k].at + (inst[k].tries + 1) * INTERVAL
       /\ inst[k].pc = "alert" =>
            /\ inst[k].tries = MAX_TRIES
            /\ now >= deliveries[k].at + MAX_TRIES * INTERVAL
       /\ inst[k].pc = "done" =>
            inst[k].res \in {SkippedResult, NotInserted, Inserted(inst[k].shouldSubmit)}
       /\ (inst[k].pc = "done" /\ inst[k].res = NotInserted) =>
            now >= deliveries[k].at + MAX_TRIES * INTERVAL
  /\ alerts = Cardinality({k \in Runs : \/ inst[k].pc = "alert"
                                        \/ inst[k].pc = "done" /\ inst[k].res = NotInserted})
  /\ insertions = Cardinality({k \in Runs : inst[k].pc = "done" /\ inst[k].res # Null
                                             /\ inst[k].res.inserted})

\* one run gave up with the alert, another one inserted the text
C20_Witness ==
  \E i, j \in Runs :
    /\ inst[i].pc = "done" /\ inst[i].res = NotInserted
    /\ inst[j].pc = "done" /\ inst[j].res # Null /\ inst[j].res.inserted
    /\ alerts = 1

-----------------------------------------------------------------------------
(* Claims about one single-action request (SpecExec) *)

\* attempt k has returned to executeAction
Returned(k) == k <= Len(attempts) /\ attempts[k].state = "returned"

\* C3: when attempt #1 reported failure and the script runs for attempt #2,
\* attempt #2 is not skipped by the debounce.
C3_RetryNeverSkipped ==
  (Len(attempts) = 2 /\ attempts[2].label = "attempt#2" /\ ~attempts[2].threw)
    => inst[2].res # SkippedResult

\* C4: the engine is invoked at most twice for a request; a second invocation
\* happens only after attempt #1 returned failure, not before 1.2 s have passed
\* since then, and a failed attempt #1 always has its retry scheduled; nothing
\* follows attempt #2 or the fallback attempt.
C4_AtMostOneRetry ==
  /\ Len(attempts) <= 2
  /\ Len(attempts) = 2 =>
       /\ attempts[1].label = "attempt#1" /\ Returned(1) /\ ~attempts[1].ok
       /\ attempts[2].label = "attempt#2"
       /\ attempts[2].at >= ok1At + 1200
  /\ exPc = "retryWait" => (Len(attempts) = 1 /\ retryDue = ok1At + 1200)
  /\ (exPc = "done" /\ Len(attempts) = 1 /\ attempts[1].label = "attempt#1")
       => attempts[1].ok
  /\ (Len(attempts) >= 1 /\ attempts[1].label = "fallback") => Len(attempts) = 1

\* attempt #2 has failed too and executeAction is over: no third invocation
C4_Witness ==
  exPc = "done" /\ Len(attempts) = 2 /\ Returned(2) /\ ~attempts[2].ok
    /\ ~attempts[2].threw /\ inst[2].res # SkippedResult

\* C5: the retry carries a request id different from attempt #1's.
C5_RetryHasFreshReqId ==
  Len(attempts) = 2 => attempts[2].reqId # attempts[1].reqId

\* C6: an attempt reports submitted = true only once the click, the Enter or
\* the form submit has been performed.
C6_SubmittedMeansSubmitted ==
  \A k \in 1..Len(attempts) :
    (Returned(k) /\ attempts[k].res # Null /\ attempts[k].res.submitted)
      => inst[k].subPc \in {"clicked", "entered", "formSubmitted"}

\* C7, as stated: a result counts as success only when it is not skipped and
\* neither inserted nor submitted is false.
C7_SuccessNeedsBoth ==
  \A k \in 1..Len(attempts) :
    (Returned(k) /\ attempts[k].res # Null)
      => (attempts[k].ok <=> (/\ ~attempts[k].res.skipped
                              /\ attempts[k].res.inserted
                              /\ attempts[k].res.submitted))

\* C7, amended: a result is a failure exactly when it is missing (the script
\* injection threw), skipped, or has both inserted and submitted false; a
\* result that is not skipped with inserted or submitted true is a success;
\* and the one retry is scheduled exactly after a failure of attempt #1.
C7_SuccessNeedsEither ==
  /\ \A k \in 1..Len(attempts) :
       Returned(k) =>
         (attempts[k].ok <=> (/\ attempts[k].res # Null
                              /\ ~attempts[k].res.skipped
                              /\ (attempts[k].res.inserted \/ attempts[k].res.submitted)))
  /\ (Returned(1) /\ attempts[1].label = "attempt#1")
       => (attempts[1].ok <=> (exPc = "done" /\ Len(attempts) = 1))

\* text inserted without auto-submit: inserted, not submitted, and a success
C7_Witness ==
  /\ Returned(1) /\ attempts[1].label = "attempt#1"
  /\ attempts[1].res # Null /\ attempts[1].res.inserted /\ ~attempts[1].res.submitted
  /\ attempts[1].ok /\ exPc = "done"

\* C15: after a readiness timeout injection is attempted against the tab
\* opened for the request; a plain tab is opened instead only when the
\* tab creation itself threw.
C15_TimeoutInjectsIntoOpenedTab ==
  \A k \in 1..Len(attempts) :
    /\ openOutcome = "timeout" => attempts[k].tab = createdTab
    /\ attempts[k].label = "fallback" => openOutcome = "createThrew"

\* C16: when the script injection of attempt #1 throws, a fresh tab is opened
\* and exactly one delayed attempt is made against that fresh tab.
C16_InjectionThrowOpensFreshTab ==
  (exPc = "done" /\ Len(attempts) >= 1 /\ attempts[1].label = "attempt#1"
     /\ attempts[1].threw)
    => /\ Len(attempts) = 2
       /\ attempts[2].tab # attempts[1].tab
       /\ attempts[2].tab = tabs

\* C19: no rejection of executeAction escapes the entry point that called it.
C19_NothingEscapes == exPc # "escaped"

-----------------------------------------------------------------------------
(* Claims about one context-menu click (SpecClick) *)

\* C11: everything one executeAction operation does uses the configuration
\* read at its start: the title substring of the readiness wait comes from
\* the same configuration as the menu URL and the auto-submit setting.
C11_OneSnapshot ==
  proc[ClickProc].pc = "done" => proc[ClickProc].sent = proc[ClickProc].ret

-----------------------------------------------------------------------------
(* Claims about Run All (SpecRunAll) *)

\* C12: one tab-creation call, for an inactive tab, per enabled action and none
\* for a disabled action, the calls being issued in ascending configured order.
C12_OneInactiveTabPerEnabledAction ==
  raPc # "idle" =>
    /\ \A i \in 1..Len(createCalls) :
         raActions[createCalls[i].action].enabled /\ ~createCalls[i].active
    /\ \A a \in ActionIds :
         Cardinality({i \in 1..Len(createCalls) : createCalls[i].action = a})
           = IF raActions[a].enabled THEN 1 ELSE 0
    /\ \A i, j \in 1..Len(createCalls) :
         i < j => raActions[createCalls[i].action].order
                    <= raActions[createCalls[j].action].order
    /\ \A a \in ActionIds : ~raActions[a].enabled => pipe[a] = "none"

\* two enabled actions listed against their order, and a disabled one
C12_Witness ==
  /\ raPc = "done"
  /\ Len(createCalls) = 2
  /\ createCalls[1].action > createCalls[2].action
  /\ \A i \in 1..2 : pipe[createCalls[i].action] \in {"ok", "retryWait", "retried"}

C14_ReadyTabNotHeldBack ==
  \A a, b \in ActionIds :
    ~(pipe[a] = "ready" /\ pipe[b] \in {"creating", "waiting"})

\* C14, amended: injection starts for any action only once the tab creation
\* and readiness wait of every enabled action has settled, and then it starts
\* for every action whose tab became ready.
C14_InjectionAfterAllTabsSettled ==
  /\ \A a, b \in ActionIds :
       pipe[a] \in {"injecting", "ok", "retryWait", "retried"}
         => pipe[b] \notin {"creating", "waiting", "ready"}
  /\ raPc = "tabs" => \A a \in ActionIds : pipe[a] \in {"none", "creating", "waiting", "ready", "null"}

\* an injection runs after another action's readiness wait has failed
C14_Witness ==
  \E a, b \in ActionIds : pipe[a] = "injecting" /\ pipe[b] = "null"

-----------------------------------------------------------------------------
(* Claims about the readiness wait (SpecWait) *)

\* C17: the wait resolves only at a moment when the tab exists and its title
\* matches; with a title that never matches it rejects with the timeout error
\* once more than 20 s have passed, at the first poll after that; for a tab
\* that no longer exists it rejects at the next poll with an error other than
\* the timeout error; the timeout error is given only after the timeout.
C17_SettlesRight ==
  /\ [][(wPc = "pending" /\ wPc' = "resolved") => (tabOpen' /\ titleMatches')]_vars
  /\ [](wPc = "resolved" => wErr = "none")
  /\ [](wPc = "rejected" =>
          wErr \in {"Timed out waiting for title match", "Tab closed", "tabs.get error"})
  /\ [](wErr = "Timed out waiting for title match" => now - wStart > TIMEOUT_MS)
  /\ [](wErr \in {"Tab closed", "tabs.get error"} => ~tabOpen)
  /\ [](wPc = "pending" =>
          /\ now - wStart <= TIMEOUT_MS + POLL_MS
          /\ wPoll # "stopped"
          /\ wPoll = "timer" => wPollDue <= now + POLL_MS)

\* the title never matched for more than 20 s and the wait was rejected for it
C17_Witness ==
  wPc = "rejected" /\ wErr = "Timed out waiting for title match" /\ tabOpen
    /\ ~titleMatches

\* C18: once the promise has settled, the tabs.onUpdated listener is removed.
C18_ListenerRemovedWhenSettled ==
  wPc \in {"resolved", "rejected"} => ~wListener

-----------------------------------------------------------------------------
(* Claims about the text path of executeAction (SpecData) *)

\* C21: after an insertion the text in the composer is exactly action.prompt,
\* one space, then the selection text, for both editor kinds.
C21_ComposerIsPromptSpaceSelection ==
  dPc = "inserted" => composer = dAction \o <<" ">> \o dSelection

\* C23: the tab of the request is opened with the cache-busting parameter when
\* clear-context is enabled and at the plain menu URL when it is disabled.
C23_FreshParameterIffClearContext ==
  dPc # "idle" => /\ dUrl.base = MenuUrl
                  /\ dUrl.fresh = dClear

-----------------------------------------------------------------------------
(* Further claims about executeAction (SpecExec) *)

\* C22: when the auto-submit flag of the request is false, no submit action
\* (send-button click, synthetic Enter, form submit) is performed or scheduled,
\* in attempt #1, in the retry and in the fallback attempt.
C22_NoSubmitWithoutAutoSubmit ==
  (exPc # "start" /\ ~exAutoSubmit) =>
     /\ submitActs = <<>>
     /\ \A i \in Runs : inst[i].subPc = "none"

\* the text was inserted by the retry or by the fallback attempt of a request
\* without auto-submit, and the request is over
C22_Witness ==
  /\ exPc = "done"
  /\ ~exAutoSubmit
  /\ Len(attempts) >= 1
  /\ attempts[Len(attempts)].label \in {"attempt#2", "fallback"}
  /\ attempts[Len(attempts)].res = Inserted(FALSE)

-----------------------------------------------------------------------------
(* Claims about keydown handling in the content script (SpecCS) *)

\* C24: a keypress matches a stored shortcut if and only if the keys are equal
\* and the two modifier sets are equal; with an extra or a missing modifier
\* there is no match even when the key is the same.
C24_MatchIffKeyAndModifiersEqual ==
  (lastKeydown # Null /\ lastKeydown.searched) =>
     LET pressed == extractKeyPress(lastKeydown.event)
         list == lastKeydown.list
         m == lastKeydown.matched
         Equal(i) == list[i].key = pressed.key /\ list[i].modifiers = pressed.modifiers
     IN /\ m \in 0..Len(list)
        /\ (m # 0) <=> \E i \in 1..Len(list) : Equal(i)
        /\ m # 0 => Equal(m)

\* a keypress with the key of a stored shortcut and one modifier more than it
\* found no match, after an exact keypress had sent a message
C24_Witness ==
  /\ lastKeydown # Null
  /\ lastKeydown.searched
  /\ lastKeydown.matched = 0
  /\ csSent # <<>>
  /\ \E i \in 1..Len(lastKeydown.list) :
        /\ lastKeydown.list[i].key = extractKeyPress(lastKeydown.event).key
        /\ lastKeydown.list[i].modifiers \subseteq extractKeyPress(lastKeydown.event).modifiers
        /\ lastKeydown.list[i].modifiers # extractKeyPress(lastKeydown.event).modifiers

\* the shortcut strings of the inputs without a modifier, and without a key
ZeroModifierStrings == {PlainS}
NoKeyStrings == {CtrlShiftOnly}

\* C26: a shortcut string with no modifier, or with no key, parses to null,
\* and after any initial load and any notification every entry of the
\* in-memory list has at least one modifier and a key, so such a shortcut is
\* neither stored nor matched.
C26_NoZeroModifierShortcutStored ==
  /\ \A i \in 1..Len(shortcuts) :
        shortcuts[i].modifiers # {} /\ shortcuts[i].key # <<>>
  /\ \A j \in 1..Len(listFrom.map) :
        listFrom.map[j][1] \in ZeroModifierStrings \cup NoKeyStrings =>
          /\ parseShortcut(listFrom.map[j][1]) = Null
          /\ \A i \in 1..Len(shortcuts) : shortcuts[i].actionId # listFrom.map[j][2]
  /\ (lastKeydown # Null /\ lastKeydown.matched # 0) =>
        lastKeydown.list[lastKeydown.matched].modifiers # {}

\* the list was built from a map holding a bare "S" and a key-less
\* "Ctrl+Shift", and S was pressed with no modifier and matched nothing
C26_Witness ==
  /\ \E j, k \in 1..Len(listFrom.map) :
        listFrom.map[j][1] = PlainS /\ listFrom.map[k][1] = CtrlShiftOnly
  /\ Len(shortcuts) = 1
  /\ lastKeydown # Null
  /\ lastKeydown.searched
  /\ lastKeydown.list = shortcuts
  /\ extractKeyPress(lastKeydown.event) = [modifiers |-> {}, key |-> <<"S">>]
  /\ lastKeydown.matched = 0

\* C27: a keydown whose target is an input, a textarea or a content-editable
\* element is not matched, its default action is not prevented and it sends
\* no message, whatever the keys and the stored shortcuts.
C27_EditableTargetIgnored ==
  (lastKeydown # Null /\ lastKeydown.event.target \in {"INPUT", "TEXTAREA", "CE"}) =>
     /\ ~lastKeydown.searched
     /\ lastKeydown.matched = 0
     /\ ~lastKeydown.prevented
     /\ lastKeydown.sent = 0

\* the keys of a stored shortcut were pressed in a content-editable element
C27_Witness ==
  /\ lastKeydown # Null
  /\ lastKeydown.event.target = "CE"
  /\ FindMatch(lastKeydown.list, extractKeyPress(lastKeydown.event)) # 0
  /\ lastKeydown.list = shortcuts

\* a step of handleKeydown
KeydownStep == lastKeydown' # lastKeydown \/ totalKeypresses' # totalKeypresses

C29_NeverMatchedAgainstOlderList ==
  (lastKeydown # Null /\ lastKeydown.searched) =>
     lastKeydown.listVersion >= lastKeydown.newest

\* C30: no keydown is recorded as a potential miss, for any shortcut
\* configuration delivered by the background.
C30_NoPotentialMiss == missedKeypresses = 0

-----------------------------------------------------------------------------
(* Claims about parseShortcut (SpecParse) *)

\* C25: two shortcut strings with the same key and the same set of modifiers,
\* whatever the order of the modifiers and whether they are written by name or
\* by symbol, parse to results that match each other: equal normalized key and
\* equal modifier set.
C25_SameShortcutParsesAlike ==
  (/\ parsePair # Null
   /\ ModifierSet(parsePair.d1) = ModifierSet(parsePair.d2)
   /\ parsePair.d1.key = parsePair.d2.key) =>
     /\ parsePair.r1 = parsePair.r2
     /\ (parsePair.d1.mods # <<>> /\ parsePair.d1.key \in OrdinaryKeys) =>
          /\ parsePair.r1 # Null
          /\ parsePair.r1.key = parsePair.r2.key
          /\ modifierSetsMatch(parsePair.r1.modifiers, parsePair.r2.modifiers)
          /\ parsePair.r1.modifiers = {NameChars(n) : n \in ModifierSet(parsePair.d1)}

\* "Ctrl+Shift+S" and the symbols of Shift and Control followed by S were parsed
C25_Witness ==
  /\ parsePair # Null
  /\ parsePair.s1 = CtrlShiftS
  /\ parsePair.s2 = <<"u21E7", "+", "u2303", "+", "S">>
  /\ parsePair.r1 # Null
  /\ parsePair.r2 # Null

-----------------------------------------------------------------------------
(* Claims about the dispatch of requests (SpecDispatch) *)

\* C31: an action whose enabled flag is false in the stored configuration is
\* never executed, neither from a context-menu click nor from a shortcut
\* request of a page that holds an older shortcut list.
C31_DisabledActionNeverExecuted ==
  (lastExec # Null /\ lastExec.executed) => lastExec.enabled

-----------------------------------------------------------------------------
(* Claims about the menu tree and the shortcut map (SpecBuilt) *)

BuiltMenus == 1..Len(built.config.menus)
EntryCount(id) == Cardinality({k \in 1..Len(built.tree) : built.tree[k].id = id})
ChildrenOf(menu) == {built.tree[k].id : k \in {j \in 1..Len(built.tree) :
                                                 built.tree[j].parentId = menu.id}}
EnabledCount(menu) == Cardinality({i \in 1..Len(menu.actions) : menu.actions[i].enabled})
TreeHasRunAll(menu) == <<menu.id, "runAll">> \in ChildrenOf(menu)
MapHasRunAll(menu) ==
  \E k \in 1..Len(built.map) :
     built.map[k][2] = [menuId |-> menu.id, actionId |-> "runAll"]

\* the entries of the menus and of their actions, without Run All
C32_MenuAndActionEntries ==
  /\ Cardinality({k \in 1..Len(built.tree) : built.tree[k].parentId = "none"})
       = Len(built.config.menus)
  /\ \A mi \in BuiltMenus :
       LET menu == built.config.menus[mi]
       IN /\ EntryCount(<<menu.id>>) = 1
          /\ \A i \in 1..Len(menu.actions) :
                EntryCount(<<menu.id, menu.actions[i].id>>) =
                  IF menu.actions[i].enabled THEN 1 ELSE 0
          /\ ChildrenOf(menu) \subseteq
               {<<menu.id, menu.actions[i].id>> : i \in 1..Len(menu.actions)}
               \cup {<<menu.id, "runAll">>}
          /\ EntryCount(<<menu.id, "runAll">>) <= 1

C39_RunAllShortcutIffEntry ==
  built # Null =>
    \A mi \in BuiltMenus :
       MapHasRunAll(built.config.menus[mi]) <=> TreeHasRunAll(built.config.menus[mi])

\* C39, amended: the Run All shortcut is in the map exactly when Run All is
\* enabled for the menu and a Run All shortcut is set; the Run All entry is
\* in the tree exactly when Run All is enabled and at least 2 actions are
\* enabled; so both need Run All enabled, and they agree for a menu with a
\* Run All shortcut set and at least 2 enabled actions.
C39_RunAllShortcutAndEntry ==
  built # Null =>
    \A mi \in BuiltMenus :
       LET menu == built.config.menus[mi]
       IN /\ MapHasRunAll(menu) <=> (menu.runAllEnabled /\ menu.runAllShortcut # "")
          /\ TreeHasRunAll(menu) <=> (menu.runAllEnabled /\ EnabledCount(menu) >= 2)
          /\ (MapHasRunAll(menu) \/ TreeHasRunAll(menu)) => menu.runAllEnabled
          /\ (menu.runAllShortcut # "" /\ EnabledCount(menu) >= 2) =>
                (MapHasRunAll(menu) <=> TreeHasRunAll(menu))

\* a menu with Run All enabled, a Run All shortcut and one enabled action:
\* the shortcut is in the map and the tree has no Run All entry
C39_Witness ==
  /\ built # Null
  /\ built.config.menus[1].runAllEnabled
  /\ EnabledCount(built.config.menus[1]) = 1
  /\ MapHasRunAll(built.config.menus[1])
  /\ ~TreeHasRunAll(built.config.menus[1])

-----------------------------------------------------------------------------
(* Claims about the options page's conflict check (SpecConflict) *)

\* the two action rows hold the same shortcut: the same key and the same
\* set of modifiers
SameShortcutInRows ==
  /\ saveCheck # Null
  /\ ShortcutString(saveCheck.d1) # <<>>
  /\ saveCheck.d1.key = saveCheck.d2.key
  /\ ModifierSet(saveCheck.d1) = ModifierSet(saveCheck.d2)

BothReported ==
  \E c \in saveCheck.conflicts :
    \A id \in {"action_1", "action_2"} : \E l \in c.locations : l.actionId = id

\* C33: whenever two actions' shortcuts have the same key and the same set
\* of modifiers, whether the strings are identical or differ in the order of
\* the modifiers, both actions are in the reported conflicts and the save
\* does not go through.
C33_SameShortcutsConflict ==
  SameShortcutInRows => BothReported /\ ~saveCheck.passed

-----------------------------------------------------------------------------
(* Claims about the submit phase (SpecExec) *)

\* the submit phase of run i has ended
SubmitEnded(i) == inst[i].subPc \in {"clicked", "entered", "formSubmitted", "failed"}

\* the runs whose submit phase ended with a submit action
Submitters == {i \in Runs : inst[i].subPc \in {"clicked", "entered", "formSubmitted"}}

\* the button is looked at SUBMIT_MAX times at most, the submit phase runs
\* only where auto-submit was asked and the text inserted, and every submit
\* action is the one action of a run that ended with it
SubmitPhaseBounded ==
  /\ \A i \in Runs :
       /\ inst[i].subTries <= SUBMIT_MAX - 1
       /\ inst[i].subPc # "none" =>
            inst[i].shouldSubmit /\ inst[i].res # Null /\ inst[i].res.inserted
       /\ inst[i].subPc = "entered" => inst[i].subTries \in {0, SUBMIT_MAX - 1}
  /\ Len(submitActs) = Cardinality(Submitters)
  /\ \A i \in Submitters :
       submitActs = <<CASE inst[i].subPc = "clicked" -> "click"
                        [] inst[i].subPc = "entered" -> "enter"
                        [] inst[i].subPc = "formSubmitted" -> "requestSubmit">>

\* C34, as stated: with auto-submit asked and the text inserted, the submit
\* phase ends within 10 looks at the button and has performed exactly one
\* submit action: the click, the synthetic Enter or the form submit request.
C34_ExactlyOneSubmitAction ==
  /\ SubmitPhaseBounded
  /\ \A i \in Runs : SubmitEnded(i) => i \in Submitters

\* C34, amended: the submit phase ends within 10 looks at the button and
\* performs at most one submit action; it performs none only when it ended
\* because the Enter could not be dispatched and no enclosing form offers
\* requestSubmit.
C34_AtMostOneSubmitAction ==
  /\ SubmitPhaseBounded
  /\ \A i \in Runs : SubmitEnded(i) => i \in Submitters \/ inst[i].subPc = "failed"

\* the button stayed disabled through all its looks and Enter was sent
C34_Witness ==
  \E i \in Runs : /\ inst[i].subPc = "entered"
                  /\ inst[i].subTries = SUBMIT_MAX - 1
                  /\ submitActs = <<"enter">>

-----------------------------------------------------------------------------
(* Claims about the attempts of one request (SpecExec) *)

\* C37: for one single-action request the prompt is inserted into a composer
\* at most once, over attempt #1, the retry and the fallback attempt.
C37_InsertedAtMostOnce == insertions <= 1

\* attempt #1 returned without an insertion and the retry inserted the text
C37_Witness ==
  /\ Len(attempts) = 2
  /\ attempts[1].state = "returned" /\ ~attempts[1].ok
  /\ attempts[2].label = "attempt#2" /\ attempts[2].state = "returned" /\ attempts[2].ok
  /\ insertions = 1

-----------------------------------------------------------------------------
(* Claims about the progress of one request (SpecExecLive) *)

\* executeAction rejected: the chrome.tabs.create of its catch block threw
NoTabCreated == exPc \in {"caught", "escaped"}

\* C38: every accepted single-action request eventually leads to at least one
\* injection attempt against some tab, whether opening the tab and waiting
\* for its readiness succeeds, times out or throws, unless no tab can be
\* created.
C38_RequestLeadsToAttempt == (exPc # "start") ~> (attempts # <<>> \/ NoTabCreated)

\* the wait for readiness timed out and the fallback attempt was made
C38_Witness ==
  /\ openOutcome = "timeout"
  /\ attempts # <<>>
  /\ attempts[1].label = "fallback"

-----------------------------------------------------------------------------
(* Claims about the choice of the editor (SpecPick) *)

\* the selectors with a visible match in dom
SelectorsWithVisible(dom) ==
  {sel \in 1..NumSelectors :
     \E i \in 1..Len(dom) : Matches(sel, dom[i]) /\ isVisible(dom[i])}

\* the first visible match of the first selector that has one; 0 when no
\* selector has a visible match
FirstVisibleMatch(dom) ==
  IF SelectorsWithVisible(dom) = {} THEN 0
  ELSE LET sel == CHOOSE a \in SelectorsWithVisible(dom) :
                    \A b \in SelectorsWithVisible(dom) : a <= b
       IN SelectSeq(queryDeepAll(dom, sel), LAMBDA i : isVisible(dom[i]))[1]

\* an invisible textarea inside a form that also holds a visible
\* contenteditable
HiddenTextareaBesideCE(dom) ==
  \E t, c \in 1..Len(dom) :
    /\ dom[t].kind = "textarea" /\ dom[t].inForm /\ ~isVisible(dom[t])
    /\ IsCE(dom[c]) /\ dom[c].inForm /\ dom[c].inShadow = dom[t].inShadow
    /\ isVisible(dom[c])

-----------------------------------------------------------------------------
(* Claims about the two configuration shapes (SpecCompat) *)

\* the entries of a tree without the namespace of their ids: the action or
\* "runAll" of a child, "root" for the top entry
EntryRefs(tree) ==
  [i \in 1..Len(tree) |->
     IF tree[i].parentId = "none" THEN "root" ELSE tree[i].id[Len(tree[i].id)]]

\* the shortcut map of the current shape with plain action ids
PlainRefs(map) == [i \in 1..Len(map) |-> <<map[i][1], map[i][2].actionId>>]

\* C40: for the same settings the legacy and the current code path build the
\* same context-menu entries and the same shortcut map up to the shape of
\* the action reference, and make the same tab creations, readiness waits
\* with the same title, and injection attempts for a click or shortcut.
C40_LegacyAndCurrentAgree ==
  compat # Null =>
    /\ EntryRefs(compat.treeV3) = EntryRefs(compat.treeV2)
    /\ PlainRefs(compat.mapV3) = compat.mapV2
    /\ compat.callsV3 = compat.callsV2

-----------------------------------------------------------------------------
(* Claims about the options page's revert buttons (SpecOptions) *)

\* what the page holds for a menu: the form for the selected menu, else
\* currentConfig
PageContent(m) == IF m = selectedMenuId THEN opForm ELSE opConfig[m]

\* a menu has unsaved changes: the page holds something else for it than
\* storage, or than a new menu that was never saved
HasUnsavedChanges(m) ==
  PageContent(m) # (IF m \in opStoredMenus THEN opStored[m] ELSE NewMenuContent)

\* C36: after any sequence of edits, menu switches, additions, deletions,
\* saves and reverts, "Revert Changes" is visible exactly when the selected
\* menu has unsaved changes and "Revert All Changes" exactly when at least
\* two existing menus have unsaved changes.
C36_RevertButtonsFollowChanges ==
  /\ revertShown <=> (selectedMenuId # "none" /\ HasUnsavedChanges(selectedMenuId))
  /\ revertAllShown <=> Cardinality({m \in Existing : HasUnsavedChanges(m)}) >= 2

=============================================================================
